---------------------------- MODULE Spec2Model ----------------------------
(***************************************************************************)
(* A model of the image-editing instruction dispatch of ai2c:              *)
(* ImageEditor (src/src/image_generation/image_editor.py), its template    *)
(* table, the eleven per-feature operations that resolve an instruction    *)
(* from the table, edit_image / batch_edit_images, load_pipeline /         *)
(* cleanup_model and the LLM client used to optimise a prompt.             *)
(*                                                                         *)
(* Text.  A Python str is a sequence of tokens.  A token is a piece of     *)
(* literal text or, inside a template only, a named replacement field      *)
(* "{name}".  The empty str is the empty sequence; no token has empty      *)
(* text.  Keys and free-text values are single pieces of text ("" when     *)
(* absent).  The module is ASCII: the Chinese category names and keys of   *)
(* the source are written in pinyin, the source text given beside each.    *)
(***************************************************************************)
EXTENDS Integers, Sequences, FiniteSets, TLC

(* ---------------------------------------------------------------------- *)
(* str                                                                      *)
(* ---------------------------------------------------------------------- *)

\* literal text
T(s) == [ph |-> FALSE, s |-> s]

\* a replacement field "{name}" of a template
P(name) == [ph |-> TRUE, s |-> name]

\* the str holding the text s ("" is the empty str)
Txt(s) == IF s = "" THEN << >> ELSE << T(s) >>

\* Python truthiness of a str: `if description:`
Truthy(s) == s # ""

\* `"{name}" in template`
HasField(tmpl, name) == \E i \in 1..Len(tmpl) : tmpl[i] = P(name)

\* `"{" in template`: the only braces of the table are its replacement fields
HasBrace(tmpl) == \E i \in 1..Len(tmpl) : tmpl[i].ph

\* sub occurs in str as a contiguous run of tokens
Contains(str, sub) ==
    \E i \in 0..(Len(str) - Len(sub)) :
        \A j \in 1..Len(sub) : str[i + j] = sub[j]

\* the result of an expression that may raise
Ok(str) == [ok |-> TRUE, err |-> "", s |-> str]
Raise(e) == [ok |-> FALSE, err |-> e, s |-> << >>]

\* the names of the replacement fields of a template
FieldNames(tmpl) == { tmpl[i].s : i \in { j \in 1..Len(tmpl) : tmpl[j].ph } }

RECURSIVE Substitute(_, _, _)
Substitute(tmpl, kwargs, i) ==
    IF i > Len(tmpl) THEN << >>
    ELSE (IF tmpl[i].ph THEN Txt(kwargs[tmpl[i].s]) ELSE << tmpl[i] >>)
         \o Substitute(tmpl, kwargs, i + 1)

\* a mutant of Format: a field whose value is falsy is left in place
FormatKeepEmpty(tmpl, kwargs) ==
    IF ~ (FieldNames(tmpl) \subseteq DOMAIN kwargs) THEN Raise("KeyError")
    ELSE Ok([i \in 1..Len(tmpl) |->
              IF tmpl[i].ph /\ kwargs[tmpl[i].s] # ""
              THEN T(kwargs[tmpl[i].s]) ELSE tmpl[i]])

\* str.format(**kwargs): every field is replaced by the text of its keyword
\* argument (the empty text included); a field with no keyword raises
\* KeyError; keywords naming no field are ignored
Format(tmpl, kwargs) ==
    IF ~ (FieldNames(tmpl) \subseteq DOMAIN kwargs) THEN Raise("KeyError")
    ELSE Ok(Substitute(tmpl, kwargs, 1))

\* str.strip(): leading and trailing whitespace removed
IsSpace(tok) == tok.s \in {" ", "\n"}

RECURSIVE LStrip(_)
LStrip(str) ==
    IF str # << >> /\ IsSpace(Head(str)) THEN LStrip(Tail(str)) ELSE str

RECURSIVE RStrip(_)
RStrip(str) ==
    IF str # << >> /\ IsSpace(str[Len(str)])
    THEN RStrip(SubSeq(str, 1, Len(str) - 1)) ELSE str

Strip(str) == RStrip(LStrip(str))

(* ---------------------------------------------------------------------- *)
(* dict: insertion-ordered, a sequence of entries [k, v] with distinct k    *)
(* ---------------------------------------------------------------------- *)

E(k, v) == [k |-> k, v |-> v]

\* `key in d`
DictHas(d, key) == \E i \in 1..Len(d) : d[i].k = key

\* d[key], for a key of d
DictGet(d, key) == d[CHOOSE i \in 1..Len(d) : d[i].k = key].v

\* list(d.keys())
DictKeys(d) == [i \in 1..Len(d) |-> d[i].k]


(* ---------------------------------------------------------------------- *)
(* ImageEditor.editing_templates (image_editor.py 47-140)                   *)
(* ---------------------------------------------------------------------- *)

\* "视角转换"
shijiao_zhuanhuan ==
    << E("cong zhengmian kan",               \* "从正面看"
         << T("Change the view to front view, clear and detailed") >>),
       E("cong cemian kan",                  \* "从侧面看"
         << T("Change the view to side view, clear and detailed") >>),
       E("cong beimian kan",                 \* "从背面看"
         << T("Change the view to back view, clear and detailed") >>),
       E("cong shang wang xia kan",          \* "从上往下看"
         << T("Change the view to top-down view, bird's eye view") >>),
       E("cong xia wang shang kan",          \* "从下往上看"
         << T("Change the view to bottom-up view, low angle view") >>),
       E("fushitu",                          \* "俯视图"
         << T("Convert to aerial view, overhead perspective") >>),
       E("yangshitu",                        \* "仰视图"
         << T("Convert to upward view, worm's eye view") >> ) >>

\* "风格转换"
fengge_zhuanhuan ==
    << E("youhua fengge",                    \* "油画风格"
         << T("Convert to oil painting style, artistic brush strokes") >>),
       E("shuicai fengge",                   \* "水彩风格"
         << T("Convert to watercolor style, soft and flowing") >>),
       E("sumiao fengge",                    \* "素描风格"
         << T("Convert to pencil sketch style, black and white drawing") >>),
       E("dongman fengge",                   \* "动漫风格"
         << T("Convert to anime style, manga artwork") >>),
       E("zhaopian fengge",                  \* "照片风格"
         << T("Convert to photorealistic style, highly detailed") >>),
       E("yinxiangpai",                      \* "印象派"
         << T("Convert to impressionist painting style") >>),
       E("chouxiang yishu",                  \* "抽象艺术"
         << T("Convert to abstract art style") >>) >>

\* "环境变换"
huanjing_bianhuan ==
    << E("baitian zhuan yewan",              \* "白天转夜晚"
         << T("Change from day to night, add moonlight and stars") >>),
       E("yewan zhuan baitian",              \* "夜晚转白天"
         << T("Change from night to day, add bright sunlight") >>),
       E("qingtian zhuan yutian",            \* "晴天转雨天"
         << T("Change to rainy weather, add rain drops and clouds") >>),
       E("shinei zhuan shiwai",              \* "室内转室外"
         << T("Move the scene from indoor to outdoor setting") >>),
       E("xiandai zhuan gudai",              \* "现代转古代"
         << T("Change the setting from modern to ancient times") >>),
       E("chengshi zhuan xiangcun",          \* "城市转乡村"
         << T("Change the setting from city to countryside") >>),
       E("chuntian zhuan qiutian",           \* "春天转秋天"
         << T("Change the season from spring to autumn") >>) >>

\* "对象变换"
duixiang_bianhuan ==
    << E("gaibian yanse",                    \* "改变颜色"
         << T("Change the color to "), P("color") >>),
       E("gaibian caizhi",                   \* "改变材质"
         << T("Change the material to "), P("material") >>),
       E("gaibian daxiao",                   \* "改变大小"
         << T("Change the size to "), P("size") >>),
       E("tianjia zhuangshi",                \* "添加装饰"
         << T("Add decorative elements like "), P("decoration") >>),
       E("gaibian biaoqing",                 \* "改变表情"
         << T("Change the facial expression to "), P("expression") >>),
       E("gaibian zitai",                    \* "改变姿态"
         << T("Change the pose to "), P("pose") >>),
       E("gaibian fuzhuang",                 \* "改变服装"
         << T("Change the clothing to "), P("clothing") >>) >>

\* "虚拟形象生成"
xuni_xingxiang_shengcheng ==
    << E("shengcheng 3D xuniren",            \* "生成3D虚拟人"
         << T("Generate a 3D virtual avatar, realistic human appearance") >>),
       E("katong juese",                     \* "卡通角色"
         << T("Create cartoon character avatar, stylized and cute") >>),
       E("dongman renwu",                    \* "动漫人物"
         << T("Generate anime character, manga style illustration") >>),
       E("youxi juese",                      \* "游戏角色"
         << T("Create game character design, fantasy RPG style") >>),
       E("shangwu xingxiang",                \* "商务形象"
         << T("Generate professional business avatar, formal appearance") >>),
       E("shishang mote",                    \* "时尚模特"
         << T("Create fashion model avatar, trendy and stylish") >>) >>

\* "AI消除"
AI_xiaochu ==
    << E("yichu duixiang",                   \* "移除对象"
         << T("Remove the "), P("object"), T(" from the image completely") >>),
       E("xiaochu shuiyin",                  \* "消除水印"
         << T("Remove watermarks and logos from the image") >>),
       E("qingchu beijing",                  \* "清除背景"
         << T("Remove background, make it transparent or solid color") >>),
       E("quchu wenzi",                      \* "去除文字"
         << T("Remove all text and writing from the image") >>),
       E("xiaochu xiaci",                    \* "消除瑕疵"
         << T("Remove imperfections, spots, and blemishes") >>),
       E("shanchu renwu",                    \* "删除人物"
         << T("Remove people from the image") >>) >>

\* "AI重绘"
AI_chonghui ==
    << E("jubu chonghui",                    \* "局部重绘"
         << T("Redraw the selected area with "), P("description") >>),
       E("beijing chonghui",                 \* "背景重绘"
         << T("Redraw the background as "), P("background") >>),
       E("renwu chonghui",                   \* "人物重绘"
         << T("Redraw the person with "), P("features") >>),
       E("wuti chonghui",                    \* "物体重绘"
         << T("Redraw the object as "), P("new_object") >>),
       E("quantu chonghui",                  \* "全图重绘"
         << T("Completely redraw the image in "), P("style"), T(" style") >>),
       E("xijie chonghui",                   \* "细节重绘"
         << T("Enhance and redraw fine details") >>) >>

\* "虚拟场景"
xuni_changjing ==
    << E("kehuan changjing",                 \* "科幻场景"
         << T("Transform into futuristic sci-fi environment") >>),
       E("qihuan shijie",                    \* "奇幻世界"
         << T("Create fantasy world with magical elements") >>),
       E("lishi changjing",                  \* "历史场景"
         << T("Transform into historical setting of "), P("period") >>),
       E("ziran fengguang",                  \* "自然风光"
         << T("Create natural landscape scene with "), P("elements") >>),
       E("chengshi changjing",               \* "城市场景"
         << T("Generate urban cityscape environment") >>),
       E("shinei kongjian",                  \* "室内空间"
         << T("Create interior space design for "), P("room_type") >>) >>

\* "穿搭模拟"
chuanda_moni ==
    << E("huanzhuang shiyi",                 \* "换装试衣"
         << T("Change clothing to "), P("clothing_style") >>),
       E("peishi dapei",                     \* "配饰搭配"
         << T("Add accessories like "), P("accessories") >>),
       E("faxing bianhuan",                  \* "发型变换"
         << T("Change hairstyle to "), P("hairstyle") >>),
       E("zhuangrong tiaozheng",             \* "妆容调整"
         << T("Adjust makeup style to "), P("makeup_style") >>),
       E("yanse dapei",                      \* "颜色搭配"
         << T("Change color scheme to "), P("color_theme") >>),
       E("jijie chuanda",                    \* "季节穿搭"
         << T("Change outfit for "), P("season"), T(" season") >>) >>

\* "文字设计"
wenzi_sheji ==
    << E("yishu ziti",                       \* "艺术字体"
         << T("Add artistic text '"), P("text"), T("' with "),
            P("font_style"), T(" style") >>),
       E("biaoti sheji",                     \* "标题设计"
         << T("Design title text '"), P("title"),
            T("' with professional layout") >>),
       E("logo sheji",                       \* "logo设计"
         << T("Create logo design with text '"), P("logo_text"), T("'") >>),
       E("shufa ziti",                       \* "书法字体"
         << T("Add calligraphy text '"), P("text"), T("' in "),
            P("calligraphy_style") >>),
       E("liti wenzi",                       \* "立体文字"
         << T("Create 3D text effect for '"), P("text"), T("'") >>),
       E("nihong wenzi",                     \* "霓虹文字"
         << T("Add neon light text effect for '"), P("text"), T("'") >>) >>

\* "海报编辑"
haibao_bianji ==
    << E("dianying haibao",                  \* "电影海报"
         << T("Design movie poster style with "), P("theme") >>),
       E("yinyue haibao",                    \* "音乐海报"
         << T("Create music concert poster design") >>),
       E("huodong haibao",                   \* "活动海报"
         << T("Design event poster for "), P("event_type") >>),
       E("chanpin haibao",                   \* "产品海报"
         << T("Create product advertisement poster") >>),
       E("fugu haibao",                      \* "复古海报"
         << T("Design vintage poster style with retro elements") >>),
       E("jianyue haibao",                   \* "简约海报"
         << T("Create minimalist poster design") >>) >>

\* the table as __init__ builds it: category -> (key -> template), both in
\* the order written
editing_templates_literal ==
    << E("shijiao zhuanhuan", shijiao_zhuanhuan),
       E("fengge zhuanhuan", fengge_zhuanhuan),
       E("huanjing bianhuan", huanjing_bianhuan),
       E("duixiang bianhuan", duixiang_bianhuan),
       E("xuni xingxiang shengcheng", xuni_xingxiang_shengcheng),
       E("AI xiaochu", AI_xiaochu),
       E("AI chonghui", AI_chonghui),
       E("xuni changjing", xuni_changjing),
       E("chuanda moni", chuanda_moni),
       E("wenzi sheji", wenzi_sheji),
       E("haibao bianji", haibao_bianji) >>

\* the eleven categories, in table order
Categories == DictKeys(editing_templates_literal)

CategorySet == { Categories[i] : i \in 1..Len(Categories) }


(* ---------------------------------------------------------------------- *)
(* Resolution: the instruction each operation builds from its category's   *)
(* templates (the dict `prompts`), the key and the caller's free text.      *)
(* ---------------------------------------------------------------------- *)

\* perspective_transform, 385-390
perspective_transform_prompt(view_prompts, target_view) ==
    IF DictHas(view_prompts, target_view)
    THEN Ok(DictGet(view_prompts, target_view))
    ELSE Ok(<< T("Change the perspective view to ") >> \o Txt(target_view)
            \o << T(", clear and detailed") >>)

\* style_transform, 402-407
style_transform_prompt(style_prompts, target_style) ==
    IF DictHas(style_prompts, target_style)
    THEN Ok(DictGet(style_prompts, target_style))
    ELSE Ok(<< T("Convert the image to ") >> \o Txt(target_style)
            \o << T(" style") >>)

\* a mutant of environment_transform_prompt: the table is subscripted without
\* the membership test
environment_transform_prompt_strict(env_prompts, target_environment) ==
    IF DictHas(env_prompts, target_environment)
    THEN Ok(DictGet(env_prompts, target_environment))
    ELSE Raise("KeyError")

\* environment_transform, 419-424
environment_transform_prompt(env_prompts, target_environment) ==
    IF DictHas(env_prompts, target_environment)
    THEN Ok(DictGet(env_prompts, target_environment))
    ELSE Ok(<< T("Change the environment to ") >> \o Txt(target_environment))

\* a mutant of object_transform_prompt: the chain lacks its last branch
object_transform_prompt_short(obj_prompts, transform_type, transform_value) ==
    IF DictHas(obj_prompts, transform_type)
    THEN LET tmpl == DictGet(obj_prompts, transform_type)
             names == << "color", "material", "size", "decoration",
                         "expression", "pose" >>
             hits == { i \in 1..Len(names) : HasField(tmpl, names[i]) }
         IN  IF hits = {} THEN Ok(tmpl)
             ELSE LET first == CHOOSE i \in hits : \A j \in hits : i <= j
                  IN  Format(tmpl, (names[first] :> transform_value))
    ELSE Ok(<< T("Change the ") >> \o Txt(transform_type) \o << T(" to ") >>
            \o Txt(transform_value))

\* object_transform, 437-458: the if/elif chain over the seven field names
object_transform_prompt(obj_prompts, transform_type, transform_value) ==
    IF DictHas(obj_prompts, transform_type)
    THEN LET tmpl == DictGet(obj_prompts, transform_type)
             names == << "color", "material", "size", "decoration",
                         "expression", "pose", "clothing" >>
             hits == { i \in 1..Len(names) : HasField(tmpl, names[i]) }
         IN  IF hits = {} THEN Ok(tmpl)
             ELSE LET first == CHOOSE i \in hits : \A j \in hits : i <= j
                  IN  Format(tmpl, (names[first] :> transform_value))
    ELSE Ok(<< T("Change the ") >> \o Txt(transform_type) \o << T(" to ") >>
            \o Txt(transform_value))

\* generate_avatar, 552-563
generate_avatar_prompt(avatar_prompts, avatar_type, description) ==
    LET base_prompt ==
            IF DictHas(avatar_prompts, avatar_type)
            THEN DictGet(avatar_prompts, avatar_type)
            ELSE << T("Generate ") >> \o Txt(avatar_type) \o << T(" avatar") >>
    IN  IF Truthy(description)
        THEN Ok(base_prompt \o << T(", ") >> \o Txt(description))
        ELSE Ok(base_prompt)

\* a mutant of ai_remove_prompt: a target_object the template has no field
\* for is appended
ai_remove_prompt_appends(remove_prompts, remove_type, target_object) ==
    IF DictHas(remove_prompts, remove_type)
    THEN LET tmpl == DictGet(remove_prompts, remove_type)
         IN  IF HasField(tmpl, "object")
             THEN Format(tmpl, ("object" :> target_object))
             ELSE IF Truthy(target_object)
             THEN Ok(tmpl \o << T(": ") >> \o Txt(target_object))
             ELSE Ok(tmpl)
    ELSE Ok(<< T("Remove ") >> \o Txt(remove_type)
            \o << T(" from the image") >>)

\* ai_remove, 584-592
ai_remove_prompt(remove_prompts, remove_type, target_object) ==
    IF DictHas(remove_prompts, remove_type)
    THEN LET tmpl == DictGet(remove_prompts, remove_type)
         IN  IF HasField(tmpl, "object")
             THEN Format(tmpl, ("object" :> target_object))
             ELSE Ok(tmpl)
    ELSE Ok(<< T("Remove ") >> \o Txt(remove_type)
            \o << T(" from the image") >>)

\* ai_redraw, 652-666
ai_redraw_prompt(redraw_prompts, redraw_type, description) ==
    IF DictHas(redraw_prompts, redraw_type)
    THEN LET tmpl == DictGet(redraw_prompts, redraw_type)
         IN  IF \E placeholder \in { "description", "background", "features",
                                     "new_object", "style" } :
                    HasField(tmpl, placeholder)
             THEN Format(tmpl, [n \in { "description", "background",
                                        "features", "new_object", "style" }
                                |-> description])
             ELSE Ok(tmpl \o << T(", ") >> \o Txt(description))
    ELSE Ok(<< T("Redraw ") >> \o Txt(redraw_type) \o << T(" as ") >>
            \o Txt(description))

\* a mutant of virtual_scene_prompt: the free text is used for a field only
virtual_scene_prompt_fields_only(scene_prompts, scene_type, scene_elements) ==
    IF DictHas(scene_prompts, scene_type)
    THEN LET tmpl == DictGet(scene_prompts, scene_type)
         IN  IF HasField(tmpl, "period")
             THEN Format(tmpl, ("period" :> scene_elements))
             ELSE IF HasField(tmpl, "elements")
             THEN Format(tmpl, ("elements" :> scene_elements))
             ELSE IF HasField(tmpl, "room_type")
             THEN Format(tmpl, ("room_type" :> scene_elements))
             ELSE Ok(tmpl)
    ELSE Ok(<< T("Transform into ") >> \o Txt(scene_type)
            \o << T(" scene") >>)

\* virtual_scene, 681-696
virtual_scene_prompt(scene_prompts, scene_type, scene_elements) ==
    LET found == DictHas(scene_prompts, scene_type)
        tmpl == IF found THEN DictGet(scene_prompts, scene_type) ELSE << >>
        prompt ==
            IF found
            THEN IF HasField(tmpl, "period")
                 THEN Format(tmpl, ("period" :> scene_elements))
                 ELSE IF HasField(tmpl, "elements")
                 THEN Format(tmpl, ("elements" :> scene_elements))
                 ELSE IF HasField(tmpl, "room_type")
                 THEN Format(tmpl, ("room_type" :> scene_elements))
                 ELSE Ok(tmpl)
            ELSE Ok(<< T("Transform into ") >> \o Txt(scene_type)
                    \o << T(" scene") >>)
    IN  IF prompt.ok /\ Truthy(scene_elements) /\ ~ HasBrace(tmpl)
        THEN Ok(prompt.s \o << T(" with ") >> \o Txt(scene_elements))
        ELSE prompt

\* outfit_simulation, 710-722
outfit_simulation_prompt(outfit_prompts, outfit_type, outfit_details) ==
    IF DictHas(outfit_prompts, outfit_type)
    THEN Format(DictGet(outfit_prompts, outfit_type),
                [n \in { "clothing_style", "accessories", "hairstyle",
                         "makeup_style", "color_theme", "season" }
                 |-> outfit_details])
    ELSE Ok(<< T("Change ") >> \o Txt(outfit_type) \o << T(" to ") >>
            \o Txt(outfit_details))

\* a mutant of text_design_prompt: format is not given calligraphy_style
text_design_prompt_four_names(text_prompts, text_type, text_content, font_style) ==
    IF DictHas(text_prompts, text_type)
    THEN Format(DictGet(text_prompts, text_type),
                [n \in { "text", "font_style", "title", "logo_text" }
                 |-> IF n = "font_style" THEN font_style ELSE text_content])
    ELSE Ok(<< T("Add ") >> \o Txt(text_type) \o << T(" text '") >>
            \o Txt(text_content) \o << T("' with ") >> \o Txt(font_style)
            \o << T(" style") >>)

\* text_design, 738-749
text_design_prompt(text_prompts, text_type, text_content, font_style) ==
    IF DictHas(text_prompts, text_type)
    THEN Format(DictGet(text_prompts, text_type),
                [n \in { "text", "font_style", "title", "logo_text",
                         "calligraphy_style" }
                 |-> IF n \in { "font_style", "calligraphy_style" }
                     THEN font_style ELSE text_content])
    ELSE Ok(<< T("Add ") >> \o Txt(text_type) \o << T(" text '") >>
            \o Txt(text_content) \o << T("' with ") >> \o Txt(font_style)
            \o << T(" style") >>)

\* a mutant of poster_design_prompt: the theme is appended whatever the
\* template holds
poster_design_prompt_always_appends(poster_prompts, poster_type, theme) ==
    LET found == DictHas(poster_prompts, poster_type)
        tmpl == IF found THEN DictGet(poster_prompts, poster_type) ELSE << >>
        prompt ==
            IF found
            THEN IF HasField(tmpl, "theme")
                 THEN Format(tmpl, ("theme" :> theme))
                 ELSE IF HasField(tmpl, "event_type")
                 THEN Format(tmpl, ("event_type" :> theme))
                 ELSE Ok(tmpl)
            ELSE Ok(<< T("Design ") >> \o Txt(poster_type)
                    \o << T(" poster") >>)
    IN  IF prompt.ok /\ Truthy(theme)
        THEN Ok(prompt.s \o << T(" with ") >> \o Txt(theme)
                \o << T(" theme") >>)
        ELSE prompt

\* poster_design, 764-777
poster_design_prompt(poster_prompts, poster_type, theme) ==
    LET found == DictHas(poster_prompts, poster_type)
        tmpl == IF found THEN DictGet(poster_prompts, poster_type) ELSE << >>
        prompt ==
            IF found
            THEN IF HasField(tmpl, "theme")
                 THEN Format(tmpl, ("theme" :> theme))
                 ELSE IF HasField(tmpl, "event_type")
                 THEN Format(tmpl, ("event_type" :> theme))
                 ELSE Ok(tmpl)
            ELSE Ok(<< T("Design ") >> \o Txt(poster_type)
                    \o << T(" poster") >>)
    IN  IF prompt.ok /\ Truthy(theme) /\ ~ HasBrace(tmpl)
        THEN Ok(prompt.s \o << T(" with ") >> \o Txt(theme)
                \o << T(" theme") >>)
        ELSE prompt

\* the operation of each category, and the category each operation names in
\* `self.editing_templates["..."]`
Operations ==
    << "perspective_transform", "style_transform", "environment_transform",
       "object_transform", "generate_avatar", "ai_remove", "ai_redraw",
       "virtual_scene", "outfit_simulation", "text_design", "poster_design" >>

OperationSet == { Operations[i] : i \in 1..Len(Operations) }

CategoryOf(op) ==
    Categories[CHOOSE i \in 1..Len(Operations) : Operations[i] = op]

OperationOf(category) ==
    Operations[CHOOSE i \in 1..Len(Categories) : Categories[i] = category]

\* the body of the operation, given the templates of its category
OperationPrompt(op, prompts, key, value, font_style) ==
    CASE op = "perspective_transform" ->
            perspective_transform_prompt(prompts, key)
      [] op = "style_transform" -> style_transform_prompt(prompts, key)
      [] op = "environment_transform" ->
            environment_transform_prompt(prompts, key)
      [] op = "object_transform" ->
            object_transform_prompt(prompts, key, value)
      [] op = "generate_avatar" -> generate_avatar_prompt(prompts, key, value)
      [] op = "ai_remove" -> ai_remove_prompt(prompts, key, value)
      [] op = "ai_redraw" -> ai_redraw_prompt(prompts, key, value)
      [] op = "virtual_scene" -> virtual_scene_prompt(prompts, key, value)
      [] op = "outfit_simulation" ->
            outfit_simulation_prompt(prompts, key, value)
      [] op = "text_design" ->
            text_design_prompt(prompts, key, value, font_style)
      [] op = "poster_design" -> poster_design_prompt(prompts, key, value)


(* ---------------------------------------------------------------------- *)
(* LLMClient, llm_client.py.  A provider name is a str whose case matters,  *)
(* so it is kept letter by letter                                           *)
(* ---------------------------------------------------------------------- *)

\* str.lower, letter by letter
Lower(name) ==
    LET UpperCase ==
            << "A", "B", "C", "D", "E", "F", "G", "H", "I", "J", "K", "L", "M",
               "N", "O", "P", "Q", "R", "S", "T", "U", "V", "W", "X", "Y", "Z" >>
        LowerCase ==
            << "a", "b", "c", "d", "e", "f", "g", "h", "i", "j", "k", "l", "m",
               "n", "o", "p", "q", "r", "s", "t", "u", "v", "w", "x", "y", "z" >>
    IN  [i \in 1..Len(name) |->
            IF \E j \in 1..Len(UpperCase) : UpperCase[j] = name[i]
            THEN LowerCase[CHOOSE j \in 1..Len(UpperCase) :
                              UpperCase[j] = name[i]]
            ELSE name[i]]

deepseek == << "d", "e", "e", "p", "s", "e", "e", "k" >>
openai == << "o", "p", "e", "n", "a", "i" >>
anthropic == << "a", "n", "t", "h", "r", "o", "p", "i", "c" >>

Backends == { deepseek, openai, anthropic }

\* an optional str: None, or a str
None == [some |-> FALSE, v |-> << >>]
Some(name) == [some |-> TRUE, v |-> name]

\* __init__, 10-25: a client for each API key the environment holds
AllConfigured == [b \in Backends |-> TRUE]

\* os.getenv(name, default)
getenv(setting, default) == IF setting.some THEN setting.v ELSE default

\* what a call of LLMClient did: how it ended and the requests it sent
Sent(outcome, requests) == [outcome |-> outcome, requests |-> requests]

\* generate_with_openai, generate_with_anthropic, generate_with_deepseek,
\* 27-61; net is what the request does: "ok" or "fail"
generate_with(cl, backend, net) ==
    IF ~ cl[backend] THEN Sent("ValueError", << >>)
    ELSE Sent(IF net = "ok" THEN "returned" ELSE "APIError", << backend >>)

\* a mutant of LLMClient_generate: a provider whose key is missing is passed
\* over for the next one
LLMClient_generate_falling_through(cl, setting, provider, net) ==
    LET name == IF ~ provider.some THEN getenv(setting, deepseek)
                ELSE provider.v
        first == generate_with(cl, Lower(name), net)
    IN  IF Lower(name) \notin Backends THEN Sent("ValueError", << >>)
        ELSE IF first.outcome # "ValueError" THEN first
        ELSE IF \E b \in Backends : cl[b]
        THEN generate_with(cl, CHOOSE b \in Backends : cl[b], net)
        ELSE first

\* LLMClient.generate, 63-74
LLMClient_generate(cl, setting, provider, net) ==
    LET name == IF ~ provider.some THEN getenv(setting, deepseek)
                ELSE provider.v
    IN  IF Lower(name) = deepseek THEN generate_with(cl, deepseek, net)
        ELSE IF Lower(name) = openai THEN generate_with(cl, openai, net)
        ELSE IF Lower(name) = anthropic THEN generate_with(cl, anthropic, net)
        ELSE Sent("ValueError", << >>)


(* ---------------------------------------------------------------------- *)
(* State                                                                    *)
(* ---------------------------------------------------------------------- *)

VARIABLES
    heap,            \* the dict and list objects, by reference
    ret,             \* the dict get_available_templates last returned, or "None"
    qwen_available,  \* QWEN_IMAGE_EDIT_AVAILABLE, copied by __init__
    pipelines,       \* self.pipelines: model type -> "None" or a pipeline
    cur,             \* the call in progress or just completed (sequential use)
    caller_writes,   \* how often the caller has changed the returned listing
    frames,          \* the calls in progress of the concurrent callers
    available,       \* the availability flags of the other modules
    pipeline,        \* TextToImageGenerator.pipeline: None or a pipeline
    clients,         \* LLMClient: which of its three clients __init__ made
    default_llm_provider,  \* the environment's DEFAULT_LLM_PROVIDER
    temp_dir         \* ImageToVideo's temp directory: who wrote each file

vars == << heap, ret, qwen_available, pipelines, cur, caller_writes, frames,
           available, pipeline, clients, default_llm_provider, temp_dir >>

\* the availability flags set when the modules are imported:
\* IMAGE_GENERATION_AVAILABLE of main.py, and the copies the generators keep
\* of DIFFUSERS_AVAILABLE (TextToImageGenerator.diffusers_available) and
\* MOVIEPY_AVAILABLE (ImageToVideoGenerator.moviepy_available,
\* VideoGenerator.moviepy_available)
Flags == { "image_generation", "diffusers", "image_to_video", "video" }

\* self.pipeline = None (text_to_image.py 32)
NoPipeline == [model |-> "None", ready |-> FALSE]

\* the temporary image files the video operations write in self.temp_dir
\* (image_to_video.py 98, 205, 323)
TempNames == { "temp_img_0.png", "temp_img_1.png", "temp_animation.png",
               "temp_compare_0.png", "temp_compare_1.png" }

\* a file that does not exist
NoFile == 0

\* the temp directory after __init__ (image_to_video.py 22-24)
NoFiles == [f \in TempNames |-> NoFile]

AllAvailable == [f \in Flags |-> TRUE]

\* references
TableRef == << "self", "editing_templates" >>
PromptsRef(category) == << "prompts", category >>
TemplatesRef == << "templates", "returned" >>
KeysRef(category) == << "keys", category >>

Refs ==
    { TableRef, TemplatesRef }
    \cup { PromptsRef(c) : c \in CategorySet }
    \cup { KeysRef(c) : c \in CategorySet }

\* __init__, 47-140: the outer dict holds a reference to each category's dict;
\* nothing has been returned yet
InitHeap ==
    [r \in Refs |->
        IF r = TableRef
        THEN [i \in 1..Len(Categories) |->
                 E(Categories[i], PromptsRef(Categories[i]))]
        ELSE IF r[1] = "prompts"
        THEN DictGet(editing_templates_literal, r[2])
        ELSE << >>]

\* self.editing_templates, read through its references
Table(h) == [i \in 1..Len(h[TableRef]) |->
                E(h[TableRef][i].k, h[h[TableRef][i].v])]

\* self.editing_templates[category]: KeyError for a category the table lacks
Subscript(h, category) ==
    IF DictHas(h[TableRef], category)
    THEN [ok |-> TRUE, err |-> "", ref |-> DictGet(h[TableRef], category)]
    ELSE [ok |-> FALSE, err |-> "KeyError", ref |-> TableRef]

ModelTypes == { "qwen_edit", "inpaint", "inpaint_xl", "controlnet_inpaint" }

\* __init__, 143-148
InitPipelines == [m \in ModelTypes |-> "None"]


(* ---------------------------------------------------------------------- *)
(* Collaborators.  What a backend does is its caller's input: `env` holds   *)
(* the outcome of each call-out of one request.                             *)
(* ---------------------------------------------------------------------- *)

\* from_pretrained raises (nothing assigned), or .to(device) /
\* set_progress_bar_config raises after the slot was assigned, or all succeed
LoadOutcomes == { "ok", "fail_before_assign", "fail_after_assign" }

\* LLMClient.generate: ValueError before any request (provider unsupported or
\* its key not configured), the request fails, or a reply
LLMOutcomes == { "ValueError", "APIError", "reply" }

\* the pipeline call returns images, or raises
RenderOutcomes == { "ok", "fail" }

\* a reply of the LLM, with the whitespace models put around their answer
LLMReply == << T(" "), T("Change the camera angle of the picture"), T("\n") >>

\* LLMClient.generate, llm_client.py 63-74, with the generate_with_* it picks
generate(llm) ==
    CASE llm = "ValueError" -> [raised |-> TRUE, requests |-> 0, text |-> << >>]
      [] llm = "APIError" -> [raised |-> TRUE, requests |-> 1, text |-> << >>]
      [] OTHER -> [raised |-> FALSE, requests |-> 1, text |-> LLMReply]

\* a mutant of optimize_edit_prompt: when generate raises, the prompt is lost
optimize_edit_prompt_blank(user_prompt, llm) ==
    LET r == generate(llm)
    IN  [prompt |-> IF r.raised THEN << >> ELSE Strip(r.text),
         generate_calls |-> 1,
         llm_requests |-> r.requests,
         replies |-> IF r.raised THEN << >> ELSE << r.text >>]

\* a mutant of optimize_edit_prompt: when generate raises, what comes back is
\* the text that was sent to the LLM
optimize_edit_prompt_template(user_prompt, llm) ==
    LET r == generate(llm)
    IN  [prompt |-> IF r.raised
                    THEN << T("User prompt: ") >> \o user_prompt
                    ELSE Strip(r.text),
         generate_calls |-> 1,
         llm_requests |-> r.requests,
         replies |-> IF r.raised THEN << >> ELSE << r.text >>]

\* optimize_edit_prompt, 209-251: one generate; the reply stripped, or the
\* caller's prompt when generate raised
optimize_edit_prompt(user_prompt, llm) ==
    LET r == generate(llm)
    IN  [prompt |-> IF r.raised THEN user_prompt ELSE Strip(r.text),
         generate_calls |-> 1,
         llm_requests |-> r.requests,
         replies |-> IF r.raised THEN << >> ELSE << r.text >>]

\* load_pipeline, 160-207
load_pipeline(pl, avail, model_type, load) ==
    IF ~ avail THEN [raised |-> "ImportError", pipelines |-> pl]
    ELSE IF model_type \notin DOMAIN pl
    THEN [raised |-> "KeyError", pipelines |-> pl]
    ELSE IF pl[model_type] # "None" THEN [raised |-> "", pipelines |-> pl]
    ELSE CASE load = "ok" ->
                [raised |-> "",
                 pipelines |-> [pl EXCEPT ![model_type] = "loaded"]]
           [] load = "fail_before_assign" ->
                [raised |-> "LoadError", pipelines |-> pl]
           [] OTHER ->
                [raised |-> "LoadError",
                 pipelines |-> [pl EXCEPT ![model_type] = "assigned"]]

\* a mutant of cleanup_model: whatever is named, every model is released
cleanup_model_all(pl, model_type) == [m \in DOMAIN pl |-> "None"]

\* cleanup_model, 501-518; model_type "None" is the default argument
cleanup_model(pl, model_type) ==
    IF model_type = "None" THEN [m \in DOMAIN pl |-> "None"]
    ELSE IF model_type \in DOMAIN pl /\ pl[model_type] # "None"
    THEN [pl EXCEPT ![model_type] = "None"]
    ELSE pl

\* what one run of a handler did
Effects(outcome, pl, renders, llm) ==
    [outcome |-> outcome, pipelines |-> pl, renders |-> renders,
     generate_calls |-> llm.generate_calls, llm_requests |-> llm.llm_requests,
     replies |-> llm.replies,
     files |-> IF outcome = "returned" THEN 1 ELSE 0]

\* no prompt optimisation took place
NoLLM(prompt) ==
    [prompt |-> prompt, generate_calls |-> 0, llm_requests |-> 0,
     replies |-> << >>]

Render(model, prompt) == [model |-> model, prompt |-> prompt]

\* a mutant of edit_image: a failed render is tried once more
edit_image_retrying(pl, avail, image, edit_prompt, optimize, env) ==
    IF ~ avail THEN Effects("ImportError", pl, << >>, NoLLM(<< >>))
    ELSE
    LET ld == IF pl["qwen_edit"] = "None"
              THEN load_pipeline(pl, avail, "qwen_edit", env.load)
              ELSE [raised |-> "", pipelines |-> pl]
    IN  IF ld.raised # "" THEN Effects(ld.raised, ld.pipelines, << >>, NoLLM(<< >>))
        ELSE IF image = "path_missing"
        THEN Effects("FileNotFoundError", ld.pipelines, << >>, NoLLM(<< >>))
        ELSE
        LET opt == IF optimize
                   THEN optimize_edit_prompt(edit_prompt, env.llm)
                   ELSE NoLLM(edit_prompt)
        IN  IF env.render = "ok"
            THEN Effects("returned", ld.pipelines,
                         << Render("qwen_edit", opt.prompt) >>,
                         opt)
            ELSE Effects("RenderError", ld.pipelines,
                         << Render("qwen_edit", opt.prompt),
                            Render("qwen_edit", opt.prompt) >>,
                         opt)

\* edit_image, 253-340.  image is "path_ok", "path_missing" or "pil"
edit_image(pl, avail, image, edit_prompt, optimize, env) ==
    IF ~ avail THEN Effects("ImportError", pl, << >>, NoLLM(<< >>))
    ELSE
    LET ld == IF pl["qwen_edit"] = "None"
              THEN load_pipeline(pl, avail, "qwen_edit", env.load)
              ELSE [raised |-> "", pipelines |-> pl]
    IN  IF ld.raised # "" THEN Effects(ld.raised, ld.pipelines, << >>, NoLLM(<< >>))
        ELSE IF image = "path_missing"
        THEN Effects("FileNotFoundError", ld.pipelines, << >>, NoLLM(<< >>))
        ELSE
        LET opt == IF optimize
                   THEN optimize_edit_prompt(edit_prompt, env.llm)
                   ELSE NoLLM(edit_prompt)
        IN  Effects(IF env.render = "ok" THEN "returned" ELSE "RenderError",
                    ld.pipelines, << Render("qwen_edit", opt.prompt) >>,
                    opt)

\* the inpainting call of ai_remove, 598-639: the prompt it passes is ""
ai_remove_render(pl, image, prompt, env) ==
    IF image = "path_missing"
    THEN Effects("FileNotFoundError", pl, << >>, NoLLM(<< >>))
    ELSE Effects(IF env.render = "ok" THEN "returned" ELSE "RenderError",
                 pl, << Render("inpaint", << >>) >>, NoLLM(<< >>))

\* the pipeline an operation loads before it resolves anything (550, 582, 650)
Preloaded(op) ==
    CASE op = "generate_avatar" -> "qwen_edit"
      [] op = "ai_remove" -> "inpaint"
      [] op = "ai_redraw" -> "inpaint_xl"
      [] OTHER -> "None"


(* ---------------------------------------------------------------------- *)
(* Calls                                                                    *)
(* ---------------------------------------------------------------------- *)

\* the record of one call: its arguments, what it resolved, what it asked of
\* the backends, and how it ended ("" while it runs, "returned", or the
\* exception it raised)
IdleFrame ==
    [op |-> "idle", category |-> "", key |-> "", value |-> "",
     font_style |-> "", image |-> "", optimize_prompt |-> FALSE,
     resolved |-> << >>, renders |-> << >>, generate_calls |-> 0,
     llm_requests |-> 0, replies |-> << >>, outcome |-> "",
     images |-> << >>, attempted |-> << >>, rendered |-> << >>,
     successful |-> << >>, failed |-> << >>, files |-> 0,
     feature |-> "", editor |-> "", editor_outcome |-> "", result |-> "",
     provider |-> None, requests |-> << >>,
     index |-> 0, summary |-> << >>,
     results |-> << >>, failed_files |-> << >>, chunks_left |-> {}]

\* a mutant of Resolve: a category the table lacks gets a generic instruction
ResolveLenient(h, category, key, value, font_style) ==
    LET sub == Subscript(h, category)
    IN  IF ~ sub.ok THEN Ok(<< T("Edit the image: ") >> \o Txt(key))
        ELSE OperationPrompt(OperationOf(category), h[sub.ref], key, value,
                             font_style)

\* the dispatcher as a function of the category: the table subscript every
\* operation starts with (385, 402, 419, 437, 552, 584, 652, 681, 710, 738,
\* 764), then the body of that category's operation
Resolve(h, category, key, value, font_style) ==
    LET sub == Subscript(h, category)
    IN  IF ~ sub.ok THEN Raise(sub.err)
        ELSE OperationPrompt(OperationOf(category), h[sub.ref], key, value,
                             font_style)

\* one of the eleven operations, start to end: [frame, pipelines]
RunOperation(h, pl, avail, op, key, value, font_style, image, optimize, env) ==
    LET base == [IdleFrame EXCEPT !.op = op, !.category = CategoryOf(op),
                                  !.key = key, !.value = value,
                                  !.font_style = font_style, !.image = image,
                                  !.optimize_prompt = optimize]
        pre == IF Preloaded(op) = "None"
               THEN [raised |-> "", pipelines |-> pl]
               ELSE load_pipeline(pl, avail, Preloaded(op), env.preload)
    IN  IF pre.raised # ""
        THEN [frame |-> [base EXCEPT !.outcome = pre.raised],
              pipelines |-> pre.pipelines]
        ELSE
        LET instr == Resolve(h, CategoryOf(op), key, value, font_style)
        IN  IF ~ instr.ok
            THEN [frame |-> [base EXCEPT !.resolved = << instr >>,
                                         !.outcome = instr.err],
                  pipelines |-> pre.pipelines]
            ELSE
            LET eff == IF op = "ai_remove"
                       THEN ai_remove_render(pre.pipelines, image, instr.s, env)
                       ELSE edit_image(pre.pipelines, avail, image, instr.s,
                                       optimize, env)
            IN  [frame |-> [base EXCEPT !.resolved = << instr >>,
                                        !.renders = eff.renders,
                                        !.generate_calls = eff.generate_calls,
                                        !.llm_requests = eff.llm_requests,
                                        !.replies = eff.replies,
                                        !.files = eff.files,
                                        !.outcome = eff.outcome],
                 pipelines |-> eff.pipelines]

(* ---------------------------------------------------------------------- *)
(* Inputs                                                                   *)
(* ---------------------------------------------------------------------- *)

\* keys of no category but "wenzi sheji": "从左上方45度俯视" and "立体文字"
UnknownKeys == { "cong zuoshangfang 45 du fushi", "liti wenzi" }

TableKeys(category) ==
    LET d == DictGet(editing_templates_literal, category)
    IN  { d[i].k : i \in 1..Len(d) }

KeysFor(op) == TableKeys(CategoryOf(op)) \cup UnknownKeys

\* the operations that take no free text
Valueless == { "perspective_transform", "style_transform",
               "environment_transform" }

ValuesFor(op) == IF op \in Valueless THEN { "" } ELSE { "", "purple" }

\* font_style of text_design; "modern" is its default
FontsFor(op) == IF op = "text_design" THEN { "modern", "gothic" } ELSE { "" }

\* generate_avatar edits a canvas it creates (569); the others are given a
\* path, of a file that exists or not
ImagesFor(op) ==
    IF op = "generate_avatar" THEN { "pil" }
    ELSE { "path_ok", "path_missing" }

\* the outcomes of the call-outs a request can reach
EnvsFor(pl, op, optimize) ==
    [preload : IF Preloaded(op) # "None" /\ pl[Preloaded(op)] = "None"
               THEN LoadOutcomes ELSE { "ok" },
     load : IF op # "ai_remove" /\ pl["qwen_edit"] = "None"
            THEN LoadOutcomes ELSE { "ok" },
     llm : IF optimize /\ op # "ai_remove" THEN LLMOutcomes ELSE { "reply" },
     render : RenderOutcomes]

\* the free-text instruction given to edit_image and batch_edit_images
EditPrompts == { "make the sky blue" }


(* ---------------------------------------------------------------------- *)
(* get_available_templates and what its caller may do with the result       *)
(* ---------------------------------------------------------------------- *)

\* a mutant of get_available_templates: the table itself is handed out
get_available_templates_shared(h) == [heap |-> h, ref |-> TableRef]

\* a mutant of get_available_templates: each list is built back to front
get_available_templates_reversed(h) ==
    [heap |->
        [r \in DOMAIN h |->
            IF r = TemplatesRef
            THEN [i \in 1..Len(h[TableRef]) |->
                     E(h[TableRef][i].k, KeysRef(h[TableRef][i].k))]
            ELSE IF r[1] = "keys" /\ DictHas(h[TableRef], r[2])
            THEN LET ks == DictKeys(h[DictGet(h[TableRef], r[2])])
                 IN  [i \in 1..Len(ks) |-> ks[Len(ks) + 1 - i]]
            ELSE h[r]],
     ref |-> TemplatesRef]

\* a mutant of get_available_templates: the keys are taken out of the table
\* (popitem) instead of read
get_available_templates_draining(h) ==
    [heap |->
        [r \in DOMAIN h |->
            IF r = TemplatesRef
            THEN [i \in 1..Len(h[TableRef]) |->
                     E(h[TableRef][i].k, KeysRef(h[TableRef][i].k))]
            ELSE IF r[1] = "keys" /\ DictHas(h[TableRef], r[2])
            THEN DictKeys(h[DictGet(h[TableRef], r[2])])
            ELSE IF r[1] = "prompts" THEN << >>
            ELSE h[r]],
     ref |-> TemplatesRef]

\* get_available_templates, 785-790: a new dict, and for each category a new
\* list of its keys
get_available_templates(h) ==
    [heap |->
        [r \in DOMAIN h |->
            IF r = TemplatesRef
            THEN [i \in 1..Len(h[TableRef]) |->
                     E(h[TableRef][i].k, KeysRef(h[TableRef][i].k))]
            ELSE IF r[1] = "keys" /\ DictHas(h[TableRef], r[2])
            THEN DictKeys(h[DictGet(h[TableRef], r[2])])
            ELSE h[r]],
     ref |-> TemplatesRef]

\* the objects only the caller of get_available_templates holds are gone
\* once it lets go of them
Collect(h) ==
    [r \in DOMAIN h |-> IF r[1] \in { "templates", "keys" } THEN << >> ELSE h[r]]

\* how often a caller changes a listing it was given
MaxCallerWrites == 1

(* ---------------------------------------------------------------------- *)
(* Sequential use: one caller, one call at a time                           *)
(* ---------------------------------------------------------------------- *)

MaxBatch == 2

NoFrames == << >>

Init ==
    /\ heap = InitHeap
    /\ ret = "None"
    /\ qwen_available \in BOOLEAN
    /\ pipelines = InitPipelines
    /\ cur = IdleFrame
    /\ caller_writes = 0
    /\ frames = NoFrames
    /\ available = AllAvailable
    /\ pipeline = NoPipeline
    /\ clients = AllConfigured
    /\ default_llm_provider = None
    /\ temp_dir = NoFiles

Operation(op) ==
    /\ cur.op = "idle"
    /\ \E key \in KeysFor(op), value \in ValuesFor(op),
          font_style \in FontsFor(op), image \in ImagesFor(op),
          optimize \in BOOLEAN :
         \E env \in EnvsFor(pipelines, op, optimize) :
            LET r == RunOperation(heap, pipelines, qwen_available, op, key,
                                  value, font_style, image, optimize, env)
            IN  /\ cur' = r.frame
                /\ pipelines' = r.pipelines
    /\ UNCHANGED << heap, ret, qwen_available, caller_writes, frames,
                available, pipeline, clients,
                default_llm_provider, temp_dir >>

PerspectiveTransform == Operation("perspective_transform")
StyleTransform == Operation("style_transform")
EnvironmentTransform == Operation("environment_transform")
ObjectTransform == Operation("object_transform")
GenerateAvatar == Operation("generate_avatar")
AiRemove == Operation("ai_remove")
AiRedraw == Operation("ai_redraw")
VirtualScene == Operation("virtual_scene")
OutfitSimulation == Operation("outfit_simulation")
TextDesign == Operation("text_design")
PosterDesign == Operation("poster_design")

\* a category that is none of the eleven
BogusCategories == { "bogus-category" }

\* the dispatcher asked for a category by name: the table subscript alone
\* decides whether there is anything to resolve
ResolveByCategory ==
    /\ cur.op = "idle"
    /\ \E category \in CategorySet \cup BogusCategories,
          key \in UnknownKeys \cup { "gaibian yanse" },
          value \in { "", "purple" } :
         LET instr == Resolve(heap, category, key, value, "modern")
         IN  cur' = [IdleFrame EXCEPT
                        !.op = "resolve", !.category = category,
                        !.key = key, !.value = value,
                        !.font_style = "modern",
                        !.resolved = << instr >>,
                        !.outcome = IF instr.ok THEN "returned" ELSE instr.err]
    /\ UNCHANGED << heap, ret, qwen_available, pipelines, caller_writes,
                    frames,
                available, pipeline, clients,
                default_llm_provider, temp_dir >>

\* edit_image called with the caller's own instruction
EditImage ==
    /\ cur.op = "idle"
    /\ \E prompt \in EditPrompts, image \in { "path_ok", "path_missing" },
          optimize \in BOOLEAN :
         \E env \in EnvsFor(pipelines, "edit_image", optimize) :
            LET eff == edit_image(pipelines, qwen_available, image,
                                  Txt(prompt), optimize, env)
            IN  /\ cur' = [IdleFrame EXCEPT
                              !.op = "edit_image", !.value = prompt,
                              !.image = image, !.optimize_prompt = optimize,
                              !.renders = eff.renders,
                              !.generate_calls = eff.generate_calls,
                              !.llm_requests = eff.llm_requests,
                              !.replies = eff.replies,
                              !.files = eff.files,
                              !.outcome = eff.outcome]
                /\ pipelines' = eff.pipelines
    /\ UNCHANGED << heap, ret, qwen_available, caller_writes, frames,
                available, pipeline, clients,
                default_llm_provider, temp_dir >>

\* the counts a batch operation returns with its two lists (370-376)
Summary(inputs, results, failed) ==
    [total_processed |-> Len(inputs), success_count |-> Len(results),
     failure_count |-> Len(failed)]

\* a batch operation called with its inputs: the two lists are empty, and a
\* loop over no inputs is over at once
BatchCalled(op, inputs) ==
    [IdleFrame EXCEPT
        !.op = op, !.images = inputs,
        !.outcome = IF inputs = << >> THEN "returned" ELSE "",
        !.summary = IF inputs = << >>
                    THEN << Summary(inputs, << >>, << >>) >> ELSE << >>]

\* a mutant of Tally: the first failure ends the loop
TallyStoppingAtFailure(frame, outcome) ==
    LET i == frame.index + 1
        results == IF outcome = "returned" THEN Append(frame.successful, i)
                   ELSE frame.successful
        failed == IF outcome = "returned" THEN frame.failed
                  ELSE Append(frame.failed, [index |-> i, error |-> outcome])
        over == i = Len(frame.images) \/ outcome # "returned"
    IN  [frame EXCEPT
            !.index = i, !.successful = results, !.failed = failed,
            !.outcome = IF over THEN "returned" ELSE "",
            !.summary = IF over
                        THEN << Summary(frame.images, results, failed) >>
                        ELSE << >>]

\* the bookkeeping of one turn of a batch loop (352-368, and the same in
\* generate_batch_images and batch_create_videos): the item's result goes to
\* the results, or its error to the failures; after the last item the
\* operation returns both lists and the counts
Tally(frame, outcome) ==
    LET i == frame.index + 1
        results == IF outcome = "returned" THEN Append(frame.successful, i)
                   ELSE frame.successful
        failed == IF outcome = "returned" THEN frame.failed
                  ELSE Append(frame.failed, [index |-> i, error |-> outcome])
        over == i = Len(frame.images)
    IN  [frame EXCEPT
            !.index = i, !.successful = results, !.failed = failed,
            !.outcome = IF over THEN "returned" ELSE "",
            !.summary = IF over
                        THEN << Summary(frame.images, results, failed) >>
                        ELSE << >>]

\* batch_edit_images, 342-376: the call, with its list of images
BatchEditImages ==
    /\ cur.op = "idle"
    /\ \E n \in 0..MaxBatch, prompt \in EditPrompts, optimize \in BOOLEAN :
         \E images \in [1..n -> { "path_ok", "path_missing" }] :
            cur' = [BatchCalled("batch_edit_images", images) EXCEPT
                       !.value = prompt, !.optimize_prompt = optimize,
                       !.attempted = [i \in 1..n |-> 0],
                       !.rendered = [i \in 1..n |-> 0]]
    /\ UNCHANGED << heap, ret, qwen_available, pipelines, caller_writes,
                    frames,
                available, pipeline, clients,
                default_llm_provider, temp_dir >>

\* one iteration of its loop (352-368): edit_image on the next image, the
\* result appended to the results or to the failed images; after the last
\* image the call returns
BatchEditImagesNext ==
    /\ cur.op = "batch_edit_images"
    /\ cur.outcome = ""
    /\ LET i == cur.index + 1
       IN  \E env \in EnvsFor(pipelines, "edit_image", cur.optimize_prompt) :
              LET eff == edit_image(pipelines, qwen_available, cur.images[i],
                                    Txt(cur.value), cur.optimize_prompt, env)
              IN  /\ cur' = [Tally(cur, eff.outcome) EXCEPT
                        !.attempted[i] = @ + 1,
                        !.rendered[i] = @ + Len(eff.renders),
                        !.renders = @ \o eff.renders,
                        !.generate_calls = @ + eff.generate_calls,
                        !.llm_requests = @ + eff.llm_requests,
                        !.replies = @ \o eff.replies,
                        !.files = @ + eff.files]
                  /\ pipelines' = eff.pipelines
    /\ UNCHANGED << heap, ret, qwen_available, caller_writes, frames,
                available, pipeline, clients,
                default_llm_provider, temp_dir >>

LoadPipeline ==
    /\ cur.op = "idle"
    /\ \E model_type \in ModelTypes \cup { "unknown_model" },
          load \in LoadOutcomes :
         LET r == load_pipeline(pipelines, qwen_available, model_type, load)
         IN  /\ cur' = [IdleFrame EXCEPT
                           !.op = "load_pipeline", !.key = model_type,
                           !.outcome = IF r.raised = "" THEN "returned"
                                       ELSE r.raised]
             /\ pipelines' = r.pipelines
    /\ UNCHANGED << heap, ret, qwen_available, caller_writes, frames,
                available, pipeline, clients,
                default_llm_provider, temp_dir >>

CleanupModel ==
    /\ cur.op = "idle"
    /\ \E model_type \in ModelTypes \cup { "None", "unknown_model" } :
         /\ cur' = [IdleFrame EXCEPT !.op = "cleanup_model",
                                     !.key = model_type,
                                     !.outcome = "returned"]
         /\ pipelines' = cleanup_model(pipelines, model_type)
    /\ UNCHANGED << heap, ret, qwen_available, caller_writes, frames,
                available, pipeline, clients,
                default_llm_provider, temp_dir >>

GetAvailableTemplates ==
    /\ cur.op = "idle"
    /\ LET r == get_available_templates(heap)
       IN  /\ heap' = r.heap
           /\ ret' = r.ref
    /\ cur' = [IdleFrame EXCEPT !.op = "get_available_templates",
                                !.outcome = "returned"]
    /\ UNCHANGED << qwen_available, pipelines, caller_writes, frames,
                available, pipeline, clients,
                default_llm_provider, temp_dir >>

\* the caller empties one of the lists it was given: templates[c].clear()
CallerClearsList ==
    /\ ret # "None"
    /\ caller_writes < MaxCallerWrites
    /\ \E i \in 1..Len(heap[ret]) :
         heap' = [heap EXCEPT ![heap[ret][i].v] = << >>]
    /\ caller_writes' = caller_writes + 1
    /\ UNCHANGED << ret, qwen_available, pipelines, cur, frames,
                available, pipeline, clients,
                default_llm_provider, temp_dir >>

\* the caller removes a category from the dict it was given: del templates[c]
CallerDeletesEntry ==
    /\ ret # "None"
    /\ caller_writes < MaxCallerWrites
    /\ \E i \in 1..Len(heap[ret]) :
         heap' = [heap EXCEPT ![ret] =
                     SubSeq(@, 1, i - 1) \o SubSeq(@, i + 1, Len(@))]
    /\ caller_writes' = caller_writes + 1
    /\ UNCHANGED << ret, qwen_available, pipelines, cur, frames,
                available, pipeline, clients,
                default_llm_provider, temp_dir >>

\* the call is over: the caller has used the result and lets go of it
Return ==
    /\ cur.op # "idle"
    /\ cur.outcome # ""
    /\ cur' = IdleFrame
    /\ ret' = "None"
    /\ heap' = Collect(heap)
    /\ caller_writes' = 0
    /\ UNCHANGED << qwen_available, pipelines, frames,
                available, pipeline, clients,
                default_llm_provider, temp_dir >>

Next ==
    \/ PerspectiveTransform
    \/ StyleTransform
    \/ EnvironmentTransform
    \/ ObjectTransform
    \/ GenerateAvatar
    \/ AiRemove
    \/ AiRedraw
    \/ VirtualScene
    \/ OutfitSimulation
    \/ TextDesign
    \/ PosterDesign
    \/ ResolveByCategory
    \/ EditImage
    \/ BatchEditImages
    \/ BatchEditImagesNext
    \/ LoadPipeline
    \/ CleanupModel
    \/ GetAvailableTemplates
    \/ CallerClearsList
    \/ CallerDeletesEntry
    \/ Return

Spec == Init /\ [][Next]_vars


(* ---------------------------------------------------------------------- *)
(* Properties                                                               *)
(* ---------------------------------------------------------------------- *)

\* an operation has resolved its instruction
Resolved == cur.op \in OperationSet /\ cur.resolved # << >>

\* the template of a key of the table as __init__ wrote it
TemplateOf(category, key) ==
    DictGet(DictGet(editing_templates_literal, category), key)

\* C1: for each of the eleven operations, a key its category lacks and no
\* free text, resolution does not raise and gives a non-empty instruction
\* that contains the key.
C1_UnknownKeyFallsBack ==
    (Resolved /\ cur.key \notin TableKeys(cur.category) /\ cur.value = "")
    => /\ Len(cur.resolved) = 1
       /\ cur.resolved[1].ok
       /\ cur.resolved[1].s # << >>
       /\ Contains(cur.resolved[1].s, Txt(cur.key))

\* perspective_transform resolved the key of the example, "从左上方45度俯视"
C1_Witness ==
    /\ cur.op = "perspective_transform"
    /\ cur.key = "cong zuoshangfang 45 du fushi"
    /\ cur.resolved =
         << Ok(<< T("Change the perspective view to "),
                  T("cong zuoshangfang 45 du fushi"),
                  T(", clear and detailed") >>) >>

\* C2: for each (category, key) of the table and a value for every parameter
\* of the operation, the instruction holds no replacement field of the
\* template any more.
C2_NoFieldLeft ==
    (/\ Resolved
     /\ cur.key \in TableKeys(cur.category)
     /\ (cur.op \notin Valueless => cur.value # ""))
    => /\ cur.resolved[1].ok
       /\ ~ HasBrace(cur.resolved[1].s)

\* object_transform filled the last template of its chain, "改变服装"
C2_Witness ==
    /\ cur.op = "object_transform"
    /\ cur.key = "gaibian fuzhuang"
    /\ cur.resolved = << Ok(<< T("Change the clothing to "), T("purple") >>) >>

\* the operations whose free text is optional (default ""), resolving a key
\* whose template has a replacement field, with no free text given
MissingValueCase ==
    /\ Resolved
    /\ cur.op \in { "ai_remove", "virtual_scene", "poster_design" }
    /\ cur.key \in TableKeys(cur.category)
    /\ HasBrace(TemplateOf(cur.category, cur.key))
    /\ cur.value = ""

\* C3 as claimed: a template field with no value supplied makes resolution
\* fail with MissingPlaceholderValue, never an instruction with the field
\* replaced by the empty string.
C3_Original ==
    MissingValueCase
    => /\ ~ cur.resolved[1].ok
       /\ cur.resolved[1].err = "MissingPlaceholderValue"

NotField(tok) == ~ tok.ph

\* C3 amended: in that case resolution raises nothing, and the instruction
\* is the template with the field replaced by the empty string.
C3_EmptyValueSubstituted ==
    MissingValueCase
    => /\ cur.resolved[1].ok
       /\ cur.resolved[1].s =
              SelectSeq(TemplateOf(cur.category, cur.key), NotField)

\* ai_remove("移除对象") with target_object omitted
C3_Witness ==
    /\ cur.op = "ai_remove"
    /\ cur.key = "yichu duixiang"
    /\ cur.value = ""
    /\ cur.resolved =
         << Ok(<< T("Remove the "), T(" from the image completely") >>) >>

FreshInstruction(category, key, value, font_style) ==
    Resolve(InitHeap, category, key, value, font_style)

\* C5: whatever calls came before (operations, listings, changes to a
\* listing, loads and cleanups), a resolution gives what the first
\* resolution of the same arguments on the editor gave: the instruction of a
\* freshly constructed editor.
C5_HistoryIndependent ==
    (cur.op \in OperationSet \cup { "resolve" } /\ cur.resolved # << >>)
    => cur.resolved =
          << FreshInstruction(cur.category, cur.key, cur.value,
                              cur.font_style) >>

\* ai_redraw resolved on an editor that has loaded pipelines in earlier calls
C5_Witness ==
    /\ cur.op = "ai_redraw"
    /\ cur.key = "quantu chonghui"
    /\ cur.value = "purple"
    /\ pipelines["inpaint"] # "None"
    /\ pipelines["controlnet_inpaint"] # "None"
    /\ cur.resolved =
         << Ok(<< T("Completely redraw the image in "), T("purple"),
                  T(" style") >>) >>

\* the listing as the caller received it
Listing == [i \in 1..Len(heap[ret]) |-> E(heap[ret][i].k, heap[heap[ret][i].v])]

InList(list, key) == \E j \in 1..Len(list) : list[j] = key

\* the operation of the category takes its template branch for the key: the
\* key has a template and the instruction starts with that template's text
TakesTemplateBranch(category, key) ==
    LET prompts == DictGet(Table(heap), category)
        instr == Resolve(heap, category, key, "purple", "modern")
    IN  /\ DictHas(prompts, key)
        /\ instr.ok
        /\ instr.s[1] = DictGet(prompts, key)[1]

\* C6: get_available_templates gives, for each of the eleven categories in
\* table order, the keys of the category in table order, and a key is in a
\* category's list exactly if the operation takes the template branch for it.
C6_ListingIsTheTemplateKeys ==
    (cur.op = "get_available_templates" /\ caller_writes = 0)
    => /\ ret # "None"
       /\ DictKeys(Listing) = Categories
       /\ \A i \in 1..Len(Categories) :
            /\ Listing[i].v =
                 DictKeys(DictGet(editing_templates_literal, Categories[i]))
            /\ \A key \in KeysFor(Operations[i]) :
                 InList(Listing[i].v, key)
                 <=> TakesTemplateBranch(Categories[i], key)

C6_Witness ==
    /\ cur.op = "get_available_templates"
    /\ ret # "None"
    /\ Len(heap[ret]) = 11
    /\ heap[ret][6].k = "AI xiaochu"
    /\ heap[heap[ret][6].v] =
         << "yichu duixiang", "xiaochu shuiyin", "qingchu beijing",
            "quchu wenzi", "xiaochu xiaci", "shanchu renwu" >>

\* C7: the table is what __init__ built, in every state: no operation and
\* no change a caller makes to a listing it was given changes
\* editing_templates or a dict in it.
C7_TableNeverChanges ==
    /\ heap[TableRef] = InitHeap[TableRef]
    /\ Table(heap) = editing_templates_literal

\* the caller has emptied a list it was given
C7_Witness ==
    /\ ret # "None"
    /\ caller_writes = 1
    /\ Len(heap[ret]) = 11
    /\ heap[heap[ret][4].v] = << >>
    /\ Table(heap) = editing_templates_literal


\* an operation has called a render backend
Rendered == cur.op \in OperationSet /\ cur.renders # << >>

NumCallers == 2

Callers == 1..NumCallers

\* a caller's call: its arguments, its position, its local variables
\* (prompts: the xxx_prompts of an operation; templates: the dict
\* get_available_templates builds) and what it returned or raised
IdleCall ==
    [pc |-> "idle", op |-> "", key |-> "", value |-> "", font_style |-> "",
     prompts |-> << >>, templates |-> << >>, result |-> << >>,
     outcome |-> ""]

\* a mutant of LocalsOf: the local variables are kept in one place for all
\* the calls
LocalsShared(c) == 1

\* local variables belong to the call: each call has its own
LocalsOf(c) == c

\* the calls the callers make
ConcRequests ==
    { [op |-> "perspective_transform", key |-> "cong zhengmian kan",
       value |-> "", font_style |-> ""],
      [op |-> "perspective_transform", key |-> "liti wenzi",
       value |-> "", font_style |-> ""],
      [op |-> "ai_redraw", key |-> "quantu chonghui",
       value |-> "purple", font_style |-> ""],
      [op |-> "virtual_scene", key |-> "lishi changjing",
       value |-> "", font_style |-> ""],
      [op |-> "text_design", key |-> "yishu ziti",
       value |-> "purple", font_style |-> "gothic"] }

InitConc ==
    /\ heap = InitHeap
    /\ ret = "None"
    /\ qwen_available = TRUE
    /\ pipelines = InitPipelines
    /\ cur = IdleFrame
    /\ caller_writes = 0
    /\ frames = [c \in Callers |-> IdleCall]
    /\ available = AllAvailable
    /\ pipeline = NoPipeline
    /\ clients = AllConfigured
    /\ default_llm_provider = None
    /\ temp_dir = NoFiles

\* a caller calls an operation
Call(c) ==
    /\ frames[c].pc = "idle"
    /\ \E req \in ConcRequests :
         frames' = [frames EXCEPT ![c] =
                       [IdleCall EXCEPT
                           !.pc = IF Preloaded(req.op) = "None"
                                  THEN "subscript" ELSE "load",
                           !.op = req.op, !.key = req.key,
                           !.value = req.value,
                           !.font_style = req.font_style]]
    /\ UNCHANGED << heap, ret, qwen_available, pipelines, cur,
                    caller_writes,
                available, pipeline, clients,
                default_llm_provider, temp_dir >>

\* generate_avatar, ai_remove and ai_redraw load their pipeline before they
\* look at the table (550, 582, 650)
Load(c) ==
    /\ frames[c].pc = "load"
    /\ LET model_type == Preloaded(frames[c].op)
       IN  \E load \in IF pipelines[model_type] = "None"
                       THEN LoadOutcomes ELSE { "ok" } :
              LET r == load_pipeline(pipelines, qwen_available, model_type,
                                     load)
              IN  /\ pipelines' = r.pipelines
                  /\ frames' = [frames EXCEPT
                        ![c].pc = IF r.raised = "" THEN "subscript"
                                  ELSE "done",
                        ![c].outcome = r.raised]
    /\ UNCHANGED << heap, ret, qwen_available, cur, caller_writes,
                available, pipeline, clients,
                default_llm_provider, temp_dir >>

\* xxx_prompts = self.editing_templates[category]
SubscriptTable(c) ==
    /\ frames[c].pc = "subscript"
    /\ LET sub == Subscript(heap, CategoryOf(frames[c].op))
       IN  frames' = IF sub.ok
                     THEN [frames EXCEPT ![c].pc = "lookup",
                                         ![LocalsOf(c)].prompts = sub.ref]
                     ELSE [frames EXCEPT ![c].pc = "done",
                                         ![c].outcome = sub.err]
    /\ UNCHANGED << heap, ret, qwen_available, pipelines, cur,
                    caller_writes,
                available, pipeline, clients,
                default_llm_provider, temp_dir >>

\* the membership test, the subscript and the format on xxx_prompts, which
\* give the operation its instruction; a local that was never assigned is
\* unbound
Lookup(c) ==
    /\ frames[c].pc = "lookup"
    /\ LET f == frames[c]
           prompts == frames[LocalsOf(c)].prompts
           instr == IF prompts = << >> THEN Raise("UnboundLocalError")
                    ELSE OperationPrompt(f.op, heap[prompts], f.key, f.value,
                                         f.font_style)
       IN  frames' = [frames EXCEPT
                         ![c].pc = "done",
                         ![c].result = << instr >>,
                         ![c].outcome = IF instr.ok THEN "returned"
                                        ELSE instr.err]
    /\ UNCHANGED << heap, ret, qwen_available, pipelines, cur,
                    caller_writes,
                available, pipeline, clients,
                default_llm_provider, temp_dir >>

\* get_available_templates, 787: templates = {}
ListCall(c) ==
    /\ frames[c].pc = "idle"
    /\ frames' = [frames EXCEPT
                     ![c] = [IdleCall EXCEPT
                                !.pc = "listing",
                                !.op = "get_available_templates"],
                     ![LocalsOf(c)].templates = << >>]
    /\ UNCHANGED << heap, ret, qwen_available, pipelines, cur,
                    caller_writes,
                available, pipeline, clients,
                default_llm_provider, temp_dir >>

\* 788-789: one iteration of the loop over the items of the table
ListNext(c) ==
    /\ frames[c].pc = "listing"
    /\ LET n == Len(frames[LocalsOf(c)].templates) + 1
       IN  /\ n <= Len(heap[TableRef])
           /\ frames' = [frames EXCEPT
                 ![LocalsOf(c)].templates =
                     Append(@, E(heap[TableRef][n].k,
                                 DictKeys(heap[heap[TableRef][n].v])))]
    /\ UNCHANGED << heap, ret, qwen_available, pipelines, cur,
                    caller_writes,
                available, pipeline, clients,
                default_llm_provider, temp_dir >>

\* 790: return templates, when the loop has seen every item
ListReturn(c) ==
    /\ frames[c].pc = "listing"
    /\ Len(frames[LocalsOf(c)].templates) >= Len(heap[TableRef])
    /\ frames' = [frames EXCEPT
                     ![c].pc = "done",
                     ![c].result = << frames[LocalsOf(c)].templates >>,
                     ![c].outcome = "returned"]
    /\ UNCHANGED << heap, ret, qwen_available, pipelines, cur,
                    caller_writes,
                available, pipeline, clients,
                default_llm_provider, temp_dir >>

\* the caller has its result
ReturnCall(c) ==
    /\ frames[c].pc = "done"
    /\ frames' = [frames EXCEPT ![c] = IdleCall]
    /\ UNCHANGED << heap, ret, qwen_available, pipelines, cur,
                    caller_writes,
                available, pipeline, clients,
                default_llm_provider, temp_dir >>

Calls == \E c \in Callers : Call(c)
Loads == \E c \in Callers : Load(c)
SubscriptTables == \E c \in Callers : SubscriptTable(c)
Lookups == \E c \in Callers : Lookup(c)
ListCalls == \E c \in Callers : ListCall(c)
ListNexts == \E c \in Callers : ListNext(c)
ListReturns == \E c \in Callers : ListReturn(c)
ReturnCalls == \E c \in Callers : ReturnCall(c)

NextConc ==
    \/ Calls
    \/ Loads
    \/ SubscriptTables
    \/ Lookups
    \/ ListCalls
    \/ ListNexts
    \/ ListReturns
    \/ ReturnCalls

SpecConc == InitConc /\ [][NextConc]_vars

\* what get_available_templates returns when nothing else is running
ListingAlone == [i \in 1..Len(Categories) |->
                    E(Categories[i],
                      DictKeys(DictGet(editing_templates_literal,
                                       Categories[i])))]

\* C8: however the steps of the callers' calls interleave, a call that
\* returns returns what it returns when it runs alone, and the table is what
\* __init__ made it.
C8_InterleavingsAgree ==
    /\ heap = InitHeap
    /\ \A c \in Callers :
         (frames[c].pc = "done" /\ frames[c].outcome = "returned")
         => frames[c].result =
              IF frames[c].op = "get_available_templates"
              THEN << ListingAlone >>
              ELSE << FreshInstruction(CategoryOf(frames[c].op),
                                       frames[c].key, frames[c].value,
                                       frames[c].font_style) >>

\* the first caller has its instruction while the second is in the middle of
\* a listing and the pipeline a third call left half loaded is in place
C8_Witness ==
    /\ frames[1].pc = "done"
    /\ frames[1].op = "perspective_transform"
    /\ frames[1].result =
         << Ok(<< T("Change the view to front view, clear and detailed") >>) >>
    /\ frames[2].pc = "listing"
    /\ Len(frames[2].templates) = 5
    /\ pipelines["inpaint_xl"] = "assigned"

(* ---------------------------------------------------------------------- *)
(* The shape of the instruction                                             *)
(* ---------------------------------------------------------------------- *)

\* an operation whose free text is optional resolved a key of its table
\* whose template has no replacement field, with free text given
PlainTemplateCase ==
    /\ Resolved
    /\ cur.op \in { "generate_avatar", "ai_remove", "ai_redraw",
                    "virtual_scene", "poster_design" }
    /\ cur.key \in TableKeys(cur.category)
    /\ ~ HasBrace(TemplateOf(cur.category, cur.key))
    /\ cur.value # ""

\* C11 as claimed: in that case the instruction is the template followed by
\* ", with " and the free text.
C11_Original ==
    PlainTemplateCase
    => cur.resolved =
         << Ok(TemplateOf(cur.category, cur.key) \o << T(", with ") >>
               \o Txt(cur.value)) >>

\* what each operation puts after a template without fields
SuffixOf(op, value) ==
    CASE op = "virtual_scene" -> << T(" with ") >> \o Txt(value)
      [] op = "poster_design" ->
            << T(" with ") >> \o Txt(value) \o << T(" theme") >>
      [] op \in { "ai_redraw", "generate_avatar" } ->
            << T(", ") >> \o Txt(value)
      [] op = "ai_remove" -> << >>

\* C11 amended: in that case the instruction is the template followed by
\* what the operation appends: " with <value>" in virtual_scene,
\* " with <value> theme" in poster_design, ", <value>" in ai_redraw and
\* generate_avatar, and nothing in ai_remove.
C11_TemplateThenSuffix ==
    PlainTemplateCase
    => cur.resolved =
         << Ok(TemplateOf(cur.category, cur.key)
               \o SuffixOf(cur.op, cur.value)) >>

\* virtual_scene("科幻场景") with scene_elements "purple"
C11_Witness ==
    /\ cur.op = "virtual_scene"
    /\ cur.key = "kehuan changjing"
    /\ cur.value = "purple"
    /\ cur.resolved =
         << Ok(<< T("Transform into futuristic sci-fi environment"),
                  T(" with "), T("purple") >>) >>

\* an operation that takes free text resolved a key its category lacks, with
\* free text given
FallbackWithValueCase ==
    /\ Resolved
    /\ cur.op \in { "object_transform", "generate_avatar", "ai_remove",
                    "ai_redraw", "virtual_scene", "outfit_simulation",
                    "text_design", "poster_design" }
    /\ cur.key \notin TableKeys(cur.category)
    /\ cur.value # ""

\* C12: in that case the synthesized instruction contains the key and the
\* free text.
C12_FallbackHasKeyAndValue ==
    FallbackWithValueCase
    => /\ cur.resolved[1].ok
       /\ Contains(cur.resolved[1].s, Txt(cur.key))
       /\ Contains(cur.resolved[1].s, Txt(cur.value))

\* ai_remove is the one operation of the eight that leaves the free text out
C12_AllButAiRemove ==
    (FallbackWithValueCase /\ cur.op # "ai_remove")
    => /\ cur.resolved[1].ok
       /\ Contains(cur.resolved[1].s, Txt(cur.key))
       /\ Contains(cur.resolved[1].s, Txt(cur.value))

\* ai_remove with a remove_type of no template and target_object "purple"
C12_AiRemoveDropsValue ==
    /\ cur.op = "ai_remove"
    /\ cur.key = "liti wenzi"
    /\ cur.value = "purple"
    /\ cur.resolved =
         << Ok(<< T("Remove "), T("liti wenzi"), T(" from the image") >>) >>

\* the keyword names an operation's code passes to str.format, over all the
\* branches of the operation
FormatNames(op) ==
    CASE op = "object_transform" ->
            { "color", "material", "size", "decoration", "expression",
              "pose", "clothing" }
      [] op = "ai_remove" -> { "object" }
      [] op = "ai_redraw" ->
            { "description", "background", "features", "new_object",
              "style" }
      [] op = "virtual_scene" -> { "period", "elements", "room_type" }
      [] op = "outfit_simulation" ->
            { "clothing_style", "accessories", "hairstyle", "makeup_style",
              "color_theme", "season" }
      [] op = "text_design" ->
            { "text", "font_style", "title", "logo_text",
              "calligraphy_style" }
      [] op = "poster_design" -> { "theme", "event_type" }
      [] OTHER -> { }

\* C13: the fields of every template of a category are among the names the
\* category's operation passes to str.format, and no resolution of a key of
\* the table fails.
C13_FieldsAreParameters ==
    /\ \A i \in 1..Len(Table(heap)) :
         \A j \in 1..Len(Table(heap)[i].v) :
            FieldNames(Table(heap)[i].v[j].v)
               \subseteq FormatNames(OperationOf(Table(heap)[i].k))
    /\ (Resolved /\ cur.key \in TableKeys(cur.category))
         => cur.resolved[1].ok

\* text_design filled the two fields of "书法字体"
C13_Witness ==
    /\ cur.op = "text_design"
    /\ cur.key = "shufa ziti"
    /\ cur.value = "purple"
    /\ cur.font_style = "gothic"
    /\ cur.resolved =
         << Ok(<< T("Add calligraphy text '"), T("purple"), T("' in "),
                  T("gothic") >>) >>

\* the positions of the replacement fields of a template
FieldPositions(tmpl) == { i \in 1..Len(tmpl) : tmpl[i].ph }

\* a template of one field with the field replaced by a text
Replaced(tmpl, value) ==
    LET i == CHOOSE j \in FieldPositions(tmpl) : TRUE
    IN  SubSeq(tmpl, 1, i - 1) \o Txt(value) \o SubSeq(tmpl, i + 1, Len(tmpl))

\* C14: for a key of the table whose template has exactly one field, the
\* instruction is the template with the field replaced by the caller's free
\* text, and nothing else.
C14_OneFieldReplaced ==
    (/\ Resolved
     /\ cur.key \in TableKeys(cur.category)
     /\ Cardinality(FieldPositions(TemplateOf(cur.category, cur.key))) = 1)
    => cur.resolved =
         << Ok(Replaced(TemplateOf(cur.category, cur.key), cur.value)) >>

\* the example: object_transform("改变颜色", "purple")
C14_Witness ==
    /\ cur.op = "object_transform"
    /\ cur.key = "gaibian yanse"
    /\ cur.value = "purple"
    /\ cur.resolved = << Ok(<< T("Change the color to "), T("purple") >>) >>

\* an operation resolved a key of its table whose template has no
\* replacement field, with no free text
VerbatimCase ==
    /\ Resolved
    /\ cur.key \in TableKeys(cur.category)
    /\ ~ HasBrace(TemplateOf(cur.category, cur.key))
    /\ cur.value = ""

\* C15: in that case the instruction is the template of the table, verbatim.
C15_TemplateVerbatim ==
    VerbatimCase
    => cur.resolved = << Ok(TemplateOf(cur.category, cur.key)) >>

\* every operation but ai_redraw returns the template verbatim
C15_AllButAiRedraw ==
    (VerbatimCase /\ cur.op # "ai_redraw")
    => cur.resolved = << Ok(TemplateOf(cur.category, cur.key)) >>

\* the example: perspective_transform("从正面看")
C15_Example ==
    /\ cur.op = "perspective_transform"
    /\ cur.key = "cong zhengmian kan"
    /\ ~ cur.optimize_prompt
    /\ cur.resolved =
         << Ok(<< T("Change the view to front view, clear and detailed") >>) >>

\* ai_redraw("细节重绘") with the empty description: ", " follows the template
C15_AiRedrawAddsComma ==
    /\ cur.op = "ai_redraw"
    /\ cur.key = "xijie chonghui"
    /\ cur.value = ""
    /\ cur.resolved =
         << Ok(<< T("Enhance and redraw fine details"), T(", ") >>) >>

\* C16: a value the chosen template has no field for is dropped and the
\* instruction is produced all the same: ai_remove with a template without
\* fields returns the template whatever target_object is, and text_design
\* with a template that has neither {font_style} nor {calligraphy_style}
\* returns the same instruction whatever font_style is, without it.
C16_UnusedValueDropped ==
    /\ (/\ Resolved
        /\ cur.op = "ai_remove"
        /\ cur.key \in TableKeys(cur.category)
        /\ ~ HasField(TemplateOf(cur.category, cur.key), "object")
        /\ cur.value # "")
         => /\ cur.resolved = << Ok(TemplateOf(cur.category, cur.key)) >>
            /\ ~ Contains(cur.resolved[1].s, Txt(cur.value))
    /\ (/\ Resolved
        /\ cur.op = "text_design"
        /\ cur.key \in TableKeys(cur.category)
        /\ ~ HasField(TemplateOf(cur.category, cur.key), "font_style")
        /\ ~ HasField(TemplateOf(cur.category, cur.key), "calligraphy_style"))
         => /\ cur.resolved[1].ok
            /\ ~ Contains(cur.resolved[1].s, Txt(cur.font_style))
            /\ \A font_style \in FontsFor("text_design") :
                 cur.resolved[1] =
                    FreshInstruction(cur.category, cur.key, cur.value,
                                     font_style)

\* ai_remove("消除水印") with target_object "purple"
C16_Witness ==
    /\ cur.op = "ai_remove"
    /\ cur.key = "xiaochu shuiyin"
    /\ cur.value = "purple"
    /\ cur.resolved =
         << Ok(<< T("Remove watermarks and logos from the image") >>) >>

\* text_design("标题设计") with font_style "gothic"
C16_TextDesignWitness ==
    /\ cur.op = "text_design"
    /\ cur.key = "biaoti sheji"
    /\ cur.value = "purple"
    /\ cur.font_style = "gothic"
    /\ cur.resolved =
         << Ok(<< T("Design title text '"), T("purple"),
                  T("' with professional layout") >>) >>

(* ---------------------------------------------------------------------- *)
(* The other generators: TextToImageGenerator, ImageToVideoGenerator and    *)
(* VideoGenerator                                                           *)
(* ---------------------------------------------------------------------- *)

\* what one run of a method of a generator did
Did(outcome, renders, llm, files) ==
    [outcome |-> outcome, renders |-> renders,
     generate_calls |-> llm.generate_calls, llm_requests |-> llm.llm_requests,
     replies |-> llm.replies, files |-> files]

\* TextToImageGenerator.load_pipeline, text_to_image.py 61-105: a pipeline
\* that is there is kept, whatever model is asked for
t2i_load_pipeline(p, avail, model_name, load) ==
    IF ~ avail THEN [raised |-> "ImportError", pipeline |-> p]
    ELSE IF p # NoPipeline THEN [raised |-> "", pipeline |-> p]
    ELSE CASE load = "ok" ->
                [raised |-> "",
                 pipeline |-> [model |-> model_name, ready |-> TRUE]]
           [] load = "fail_before_assign" ->
                [raised |-> "LoadError", pipeline |-> p]
           [] OTHER ->
                [raised |-> "LoadError",
                 pipeline |-> [model |-> model_name, ready |-> FALSE]]

\* TextToImageGenerator.optimize_prompt, text_to_image.py 106-148
optimize_prompt(user_prompt, llm) ==
    LET r == generate(llm)
    IN  [prompt |-> IF r.raised THEN user_prompt ELSE Strip(r.text),
         generate_calls |-> 1,
         llm_requests |-> r.requests,
         replies |-> IF r.raised THEN << >> ELSE << r.text >>]

\* self.style_prompts["写实"], the default style of generate_image
style_addition ==
    << T("photorealistic, highly detailed, professional photography") >>

\* TextToImageGenerator.generate_image, text_to_image.py 151-251, for one
\* image: [did, pipeline].  The render is by the pipeline the object holds
generate_image(p, avail, prompt, model_name, optimize, env) ==
    IF ~ avail
    THEN [did |-> Did("ImportError", << >>, NoLLM(<< >>), 0), pipeline |-> p]
    ELSE
    LET ld == t2i_load_pipeline(p, avail, model_name, env.load)
    IN  IF ld.raised # ""
        THEN [did |-> Did(ld.raised, << >>, NoLLM(<< >>), 0),
              pipeline |-> ld.pipeline]
        ELSE
        LET opt == IF optimize THEN optimize_prompt(prompt, env.llm)
                   ELSE NoLLM(prompt)
        IN  [did |-> Did(IF env.render = "ok" THEN "returned"
                         ELSE "RenderError",
                         << Render(ld.pipeline.model,
                                   opt.prompt \o << T(", ") >>
                                   \o style_addition) >>,
                         opt,
                         IF env.render = "ok" THEN 1 ELSE 0),
             pipeline |-> ld.pipeline]

\* TextToImageGenerator.cleanup_model, text_to_image.py 338-347
t2i_cleanup_model(p) == NoPipeline

\* the images of a list that are PIL images: each is saved to a temp file
Temps(images) == Len(SelectSeq(images, LAMBDA x : x = "pil"))

\* ImageToVideoGenerator.create_slideshow_video, image_to_video.py 72-184.
\* An image is "path_ok", "path_missing" or "pil"
create_slideshow_video(avail, images, render) ==
    IF ~ avail THEN Did("ImportError", << >>, NoLLM(<< >>), 0)
    ELSE IF SelectSeq(images, LAMBDA x : x # "path_missing") = << >>
    THEN Did("ValueError", << >>, NoLLM(<< >>), 0)
    ELSE Did(IF render = "ok" THEN "returned" ELSE "RenderError",
             << Render("moviepy", << >>) >>, NoLLM(<< >>),
             Temps(images) + (IF render = "ok" THEN 1 ELSE 0))

\* ImageToVideoGenerator.create_animated_video, image_to_video.py 186-301
create_animated_video(avail, image, render) ==
    IF ~ avail THEN Did("ImportError", << >>, NoLLM(<< >>), 0)
    ELSE IF image = "path_missing"
    THEN Did("FileNotFoundError", << >>, NoLLM(<< >>), 0)
    ELSE Did(IF render = "ok" THEN "returned" ELSE "RenderError",
             << Render("moviepy", << >>) >>, NoLLM(<< >>),
             Temps(<< image >>) + (IF render = "ok" THEN 1 ELSE 0))

\* ImageToVideoGenerator.create_comparison_video, image_to_video.py 303-392:
\* a path is not tested, ImageClip raises for a file that does not exist
create_comparison_video(avail, before_image, after_image, render) ==
    IF ~ avail THEN Did("ImportError", << >>, NoLLM(<< >>), 0)
    ELSE
    LET ok == /\ render = "ok"
              /\ "path_missing" \notin { before_image, after_image }
    IN  Did(IF ok THEN "returned" ELSE "RenderError",
            << Render("moviepy", << >>) >>, NoLLM(<< >>),
            Temps(<< before_image, after_image >>) + (IF ok THEN 1 ELSE 0))

\* VideoGenerator.generate_video_script, video_generator.py 38-113: one
\* generate, outside any try
generate_video_script(llm) ==
    LET r == generate(llm)
    IN  [raised |-> IF r.raised THEN llm ELSE "",
         generate_calls |-> 1,
         llm_requests |-> r.requests,
         replies |-> IF r.raised THEN << >> ELSE << r.text >>]

\* VideoGenerator.generate_video_from_text, video_generator.py 279-309: the
\* script (288), then create_text_video (115-159) or create_slideshow_video
\* (161-208), which check the dependencies; the slideshow of the one scene
\* of the script writes one placeholder image (258-277)
generate_video_from_text(avail, output_type, llm, render) ==
    LET script == generate_video_script(llm)
    IN  IF script.raised # "" THEN Did(script.raised, << >>, script, 0)
        ELSE IF ~ avail THEN Did("ImportError", << >>, script, 0)
        ELSE
        LET temps == IF output_type = "slideshow" THEN 1 ELSE 0
        IN  Did(IF render = "ok" THEN "returned" ELSE "RenderError",
                << Render("moviepy", << >>) >>, script,
                temps + (IF render = "ok" THEN 1 ELSE 0))

\* the frame of a call of a generator's method
Called(op, did) ==
    [IdleFrame EXCEPT !.op = op, !.renders = did.renders,
                      !.generate_calls = did.generate_calls,
                      !.llm_requests = did.llm_requests,
                      !.replies = did.replies, !.files = did.files,
                      !.outcome = did.outcome]

\* the prompt given to generate_image
ImagePrompts == { "a red fox" }

\* an image handed to ImageToVideoGenerator: a path or a PIL image
VideoImages == { "path_ok", "path_missing", "pil" }

\* keys of self.default_models (36-40)
ModelNames == { "sd15", "sdxl" }

GenerateImage ==
    /\ cur.op = "idle"
    /\ \E prompt \in ImagePrompts, optimize \in BOOLEAN,
          model_name \in ModelNames :
         \E env \in [load : IF available.diffusers /\ pipeline = NoPipeline
                            THEN LoadOutcomes ELSE { "ok" },
                     llm : IF available.diffusers /\ optimize
                           THEN LLMOutcomes ELSE { "reply" },
                     render : RenderOutcomes] :
            LET r == generate_image(pipeline, available.diffusers,
                                    Txt(prompt), model_name, optimize, env)
            IN  /\ cur' = [Called("generate_image", r.did) EXCEPT
                              !.value = prompt, !.key = model_name,
                              !.optimize_prompt = optimize]
                /\ pipeline' = r.pipeline
    /\ UNCHANGED << heap, ret, qwen_available, pipelines, caller_writes,
                    frames, available, clients,
                    default_llm_provider, temp_dir >>

\* TextToImageGenerator.cleanup_model
CleanupImageModel ==
    /\ cur.op = "idle"
    /\ cur' = [IdleFrame EXCEPT !.op = "t2i_cleanup_model",
                                !.outcome = "returned"]
    /\ pipeline' = t2i_cleanup_model(pipeline)
    /\ UNCHANGED << heap, ret, qwen_available, pipelines, caller_writes,
                    frames, available, clients,
                    default_llm_provider, temp_dir >>

CreateSlideshowVideo ==
    /\ cur.op = "idle"
    /\ \E n \in 1..2, render \in RenderOutcomes :
         \E images \in [1..n -> VideoImages] :
            cur' = [Called("create_slideshow_video",
                           create_slideshow_video(available.image_to_video,
                                                  images, render))
                    EXCEPT !.images = images]
    /\ UNCHANGED << heap, ret, qwen_available, pipelines, caller_writes,
                    frames, available, pipeline, clients,
                default_llm_provider, temp_dir >>

CreateAnimatedVideo ==
    /\ cur.op = "idle"
    /\ \E image \in VideoImages, render \in RenderOutcomes :
         cur' = [Called("create_animated_video",
                        create_animated_video(available.image_to_video,
                                              image, render))
                 EXCEPT !.images = << image >>]
    /\ UNCHANGED << heap, ret, qwen_available, pipelines, caller_writes,
                    frames, available, pipeline, clients,
                default_llm_provider, temp_dir >>

CreateComparisonVideo ==
    /\ cur.op = "idle"
    /\ \E before_image \in VideoImages, after_image \in VideoImages,
          render \in RenderOutcomes :
         cur' = [Called("create_comparison_video",
                        create_comparison_video(available.image_to_video,
                                                before_image, after_image,
                                                render))
                 EXCEPT !.images = << before_image, after_image >>]
    /\ UNCHANGED << heap, ret, qwen_available, pipelines, caller_writes,
                    frames, available, pipeline, clients,
                default_llm_provider, temp_dir >>

GenerateVideoFromText ==
    /\ cur.op = "idle"
    /\ \E output_type \in { "text_video", "slideshow" },
          llm \in LLMOutcomes, render \in RenderOutcomes :
         cur' = [Called("generate_video_from_text",
                        generate_video_from_text(available.video, output_type,
                                                 llm, render))
                 EXCEPT !.key = output_type]
    /\ UNCHANGED << heap, ret, qwen_available, pipelines, caller_writes,
                    frames, available, pipeline, clients,
                default_llm_provider, temp_dir >>

\* the generators as the imports left them: each flag is true or false
InitGenerators ==
    /\ heap = InitHeap
    /\ ret = "None"
    /\ qwen_available \in BOOLEAN
    /\ pipelines = InitPipelines
    /\ cur = IdleFrame
    /\ caller_writes = 0
    /\ frames = NoFrames
    /\ available \in { a \in [Flags -> BOOLEAN] : a.image_generation }
    /\ pipeline = NoPipeline
    /\ clients = AllConfigured
    /\ default_llm_provider = None
    /\ temp_dir = NoFiles

NextGenerators ==
    \/ EditImage
    \/ PerspectiveTransform
    \/ GenerateAvatar
    \/ AiRemove
    \/ GenerateImage
    \/ CleanupImageModel
    \/ CreateSlideshowVideo
    \/ CreateAnimatedVideo
    \/ CreateComparisonVideo
    \/ GenerateVideoFromText
    \/ Return

SpecGenerators == InitGenerators /\ [][NextGenerators]_vars

\* the single-item operations of the four features
SingleItemOps ==
    OperationSet
    \cup { "edit_image", "generate_image", "create_slideshow_video",
           "create_animated_video", "create_comparison_video",
           "generate_video_from_text" }

\* the availability flag an operation's class tests
FlagOf(op) ==
    CASE op = "generate_image" -> available.diffusers
      [] op \in { "create_slideshow_video", "create_animated_video",
                  "create_comparison_video" } -> available.image_to_video
      [] op = "generate_video_from_text" -> available.video
      [] OTHER -> qwen_available

\* a single-item operation was called with its feature unavailable
UnavailableCase ==
    /\ cur.op \in SingleItemOps
    /\ cur.outcome # ""
    /\ ~ FlagOf(cur.op)

\* the model of the operation's class is not loaded (the video classes
\* have none)
NoModelLoaded(op) ==
    CASE op = "generate_image" -> pipeline = NoPipeline
      [] op \in { "create_slideshow_video", "create_animated_video",
                  "create_comparison_video", "generate_video_from_text" } -> TRUE
      [] OTHER -> pipelines = InitPipelines

\* nothing was loaded, asked of an LLM, rendered or written
NothingDone ==
    /\ NoModelLoaded(cur.op)
    /\ cur.generate_calls = 0
    /\ cur.llm_requests = 0
    /\ cur.renders = << >>
    /\ cur.files = 0

\* C17: a single-item operation of a feature whose flag is false fails with
\* ImportError, and before that no model was loaded, no LLM and no render
\* backend was called and no file was written.
C17_UnavailableFailsFirst ==
    UnavailableCase => (cur.outcome = "ImportError" /\ NothingDone)

\* it is so for every operation but generate_video_from_text
C17_AllButVideoFromText ==
    (UnavailableCase /\ cur.op # "generate_video_from_text")
    => (cur.outcome = "ImportError" /\ NothingDone)

\* no operation changes a flag
C17_FlagsNeverChange ==
    [][available' = available /\ qwen_available' = qwen_available]_vars

\* generate_video_from_text without moviepy: the LLM was asked for a script
\* before the ImportError
C17_ScriptBeforeImportError ==
    /\ cur.op = "generate_video_from_text"
    /\ ~ available.video
    /\ cur.outcome = "ImportError"
    /\ cur.generate_calls = 1
    /\ cur.llm_requests = 1

\* generate_video_from_text without moviepy fails with the error of the LLM
C17_LLMErrorInstead ==
    /\ cur.op = "generate_video_from_text"
    /\ ~ available.video
    /\ cur.outcome = "ValueError"

(* ---------------------------------------------------------------------- *)
(* AI2CSystem, main.py: the feature functions in front of the image editor  *)
(* ---------------------------------------------------------------------- *)

Features ==
    { "edit_image", "generate_avatar", "ai_remove_object", "ai_redraw_area",
      "create_virtual_scene", "simulate_outfit", "design_text_poster" }

\* design_text_poster, 435: "文字设计", "艺术字体", "标题设计", "logo设计"
TextDesignTypes == { "wenzi sheji", "yishu ziti", "biaoti sheji", "logo sheji" }

\* the method of the editor a feature function calls
EditorOf(feature, key) ==
    CASE feature = "edit_image" -> "edit_image"
      [] feature = "generate_avatar" -> "generate_avatar"
      [] feature = "ai_remove_object" -> "ai_remove"
      [] feature = "ai_redraw_area" -> "ai_redraw"
      [] feature = "create_virtual_scene" -> "virtual_scene"
      [] feature = "simulate_outfit" -> "outfit_simulation"
      [] OTHER -> IF key \in TextDesignTypes THEN "text_design"
                  ELSE "poster_design"

\* the features that are given the path of an image
TakesImagePath(feature) == feature # "generate_avatar"

\* `a or b`
OrElse(a, b) == IF Truthy(a) THEN a ELSE b

\* the free text a feature function hands on: design_text_poster gives
\* text_design its content, and poster_design `style or content` as theme
ValueGiven(op, value, style) ==
    IF op = "poster_design" THEN OrElse(style, value) ELSE value

\* font_style=style or "modern" of text_design
FontGiven(op, style) ==
    IF op = "text_design" THEN OrElse(style, "modern") ELSE ""

\* the frame of a call of edit_image, from what it did
EditImageFrame(eff) ==
    [frame |-> [IdleFrame EXCEPT
                   !.renders = eff.renders,
                   !.generate_calls = eff.generate_calls,
                   !.llm_requests = eff.llm_requests,
                   !.replies = eff.replies,
                   !.files = eff.files,
                   !.outcome = eff.outcome],
     pipelines |-> eff.pipelines]

\* the call of the editor inside the try: [frame, pipelines]
CallEditor(h, pl, qwen, feature, image_path, key, value, style, env) ==
    IF feature = "edit_image"
    THEN EditImageFrame(edit_image(pl, qwen, image_path, Txt(key), TRUE, env))
    ELSE RunOperation(h, pl, qwen, EditorOf(feature, key), key,
                      ValueGiven(EditorOf(feature, key), value, style),
                      FontGiven(EditorOf(feature, key), style), image_path,
                      TRUE, env)

\* the frame of a feature function that returned
Answered(feature, image_path, key, value, style, editor, inner, result) ==
    [inner EXCEPT !.op = "AI2CSystem", !.feature = feature,
                  !.image = image_path, !.key = key, !.value = value,
                  !.font_style = style, !.editor = editor,
                  !.editor_outcome = inner.outcome, !.result = result,
                  !.outcome = "returned"]

\* a mutant of Caught: only ImportError is caught
CaughtImportErrorOnly(feature, image_path, key, value, style, r) ==
    LET a == Answered(feature, image_path, key, value, style,
                      EditorOf(feature, key), r.frame,
                      IF r.frame.outcome = "returned" THEN "result"
                      ELSE "None")
    IN  [frame |-> IF r.frame.outcome \in { "returned", "ImportError" }
                   THEN a
                   ELSE [a EXCEPT !.outcome = r.frame.outcome, !.result = ""],
         pipelines |-> r.pipelines]

\* the try around the editor's call r: its result is returned, and every
\* error it raises is an Exception, which the except clause turns into None
Caught(feature, image_path, key, value, style, r) ==
    [frame |-> Answered(feature, image_path, key, value, style,
                        EditorOf(feature, key), r.frame,
                        IF r.frame.outcome = "returned" THEN "result"
                        ELSE "None"),
     pipelines |-> r.pipelines]

\* a feature function of AI2CSystem, main.py 237-457: [frame, pipelines].
\* image_generation is IMAGE_GENERATION_AVAILABLE; __init__ (50-58) makes
\* self.image_editor an ImageEditor exactly when it is true
FeatureCall(h, pl, image_generation, qwen, feature, image_path, key, value, style, env) ==
    IF ~ image_generation
    THEN [frame |-> Answered(feature, image_path, key, value, style, "",
                             IdleFrame, "None"),
          pipelines |-> pl]
    ELSE IF TakesImagePath(feature) /\ image_path = "path_missing"
    THEN [frame |-> Answered(feature, image_path, key, value, style, "",
                             IdleFrame, "None"),
          pipelines |-> pl]
    ELSE Caught(feature, image_path, key, value, style,
                CallEditor(h, pl, qwen, feature, image_path, key, value,
                           style, env))

\* the first argument after the image: the instruction of edit_image, the
\* type of the others
KeysOf(feature) ==
    CASE feature = "edit_image" -> EditPrompts
      [] feature = "design_text_poster" ->
            TableKeys("wenzi sheji") \cup TableKeys("haibao bianji")
            \cup { "wenzi sheji" }
      [] OTHER -> KeysFor(EditorOf(feature, ""))

Feature(feature) ==
    /\ cur.op = "idle"
    /\ \E key \in KeysOf(feature),
          value \in IF feature = "edit_image" THEN { "" } ELSE { "", "purple" },
          style \in IF feature = "design_text_poster" THEN { "", "gothic" }
                    ELSE { "" },
          image_path \in IF TakesImagePath(feature)
                         THEN { "path_ok", "path_missing" } ELSE { "pil" } :
         \E env \in EnvsFor(pipelines, EditorOf(feature, key), TRUE) :
            LET r == FeatureCall(heap, pipelines, available.image_generation,
                                 qwen_available, feature, image_path, key,
                                 value, style, env)
            IN  /\ cur' = r.frame
                /\ pipelines' = r.pipelines
    /\ UNCHANGED << heap, ret, qwen_available, caller_writes, frames,
                    available, pipeline, clients,
                default_llm_provider, temp_dir >>

SystemEditImage == Feature("edit_image")
SystemGenerateAvatar == Feature("generate_avatar")
AiRemoveObject == Feature("ai_remove_object")
AiRedrawArea == Feature("ai_redraw_area")
CreateVirtualScene == Feature("create_virtual_scene")
SimulateOutfit == Feature("simulate_outfit")
DesignTextPoster == Feature("design_text_poster")

\* the system as the imports left it.  When main.py can import the editor's
\* module, the editor's own flag is true or false; when it cannot, there is
\* no editor
InitSystem ==
    /\ heap = InitHeap
    /\ ret = "None"
    /\ qwen_available \in BOOLEAN
    /\ pipelines = InitPipelines
    /\ cur = IdleFrame
    /\ caller_writes = 0
    /\ frames = NoFrames
    /\ available \in { a \in [Flags -> BOOLEAN] :
                         /\ a.diffusers /\ a.image_to_video /\ a.video
                         /\ (~ a.image_generation => ~ qwen_available) }
    /\ pipeline = NoPipeline
    /\ clients = AllConfigured
    /\ default_llm_provider = None
    /\ temp_dir = NoFiles

NextSystem ==
    \/ SystemEditImage
    \/ SystemGenerateAvatar
    \/ AiRemoveObject
    \/ AiRedrawArea
    \/ CreateVirtualScene
    \/ SimulateOutfit
    \/ DesignTextPoster
    \/ Return

SpecSystem == InitSystem /\ [][NextSystem]_vars

\* a feature function was called and is over
FeatureDone == cur.op = "AI2CSystem" /\ cur.outcome # ""

\* the feature is unavailable, or the image file is missing
Guarded ==
    \/ ~ available.image_generation
    \/ (TakesImagePath(cur.feature) /\ cur.image = "path_missing")

\* the editor was not called, and nothing it does has happened
EditorNotInvoked ==
    /\ cur.editor = ""
    /\ cur.editor_outcome = ""
    /\ cur.resolved = << >>
    /\ cur.renders = << >>
    /\ cur.generate_calls = 0
    /\ cur.llm_requests = 0
    /\ cur.files = 0

\* C18: a feature function of AI2CSystem never lets an exception out: it
\* returns, and what it returns is None when the feature is unavailable, when
\* the image file is missing and when the editor raised; in the first two
\* cases the editor is not invoked.
C18_NoneInsteadOfException ==
    FeatureDone =>
        /\ cur.outcome = "returned"
        /\ cur.result \in { "None", "result" }
        /\ (Guarded => (cur.result = "None" /\ EditorNotInvoked))
        /\ (cur.editor_outcome \notin { "", "returned" } => cur.result = "None")

\* the editor raised something other than ImportError, and the feature
\* function returned None
C18_Witness ==
    /\ FeatureDone
    /\ cur.editor_outcome \in { "RenderError", "LoadError" }
    /\ cur.result = "None"
    /\ cur.outcome = "returned"

\* the feature is installed but its model library is not: ImportError becomes
\* None
C18_ImportErrorWitness ==
    /\ FeatureDone
    /\ cur.editor_outcome = "ImportError"
    /\ cur.result = "None"

\* the file is missing and the editor was not asked
C18_MissingFileWitness ==
    /\ FeatureDone
    /\ available.image_generation
    /\ cur.image = "path_missing"
    /\ cur.result = "None"
    /\ EditorNotInvoked

(* ---------------------------------------------------------------------- *)
(* LLMClient.generate and the provider it picks                             *)
(* ---------------------------------------------------------------------- *)

\* names a caller or the environment may give: the three providers, written
\* in lower, mixed and upper case, and names of no provider ("gemini", "")
ProviderNames ==
    { deepseek, openai, anthropic,
      << "D", "e", "e", "p", "S", "e", "e", "k" >>,
      << "O", "P", "E", "N", "A", "I" >>,
      << "A", "n", "t", "h", "r", "o", "p", "i", "c" >>,
      << "g", "e", "m", "i", "n", "i" >>,
      << >> }

\* what a request to a backend does
NetOutcomes == { "ok", "fail" }

\* generate(prompt, provider)
Generate ==
    /\ cur.op = "idle"
    /\ \E provider \in { None } \cup { Some(n) : n \in ProviderNames },
          net \in NetOutcomes :
         LET r == LLMClient_generate(clients, default_llm_provider, provider,
                                     net)
         IN  cur' = [IdleFrame EXCEPT
                        !.op = "generate", !.provider = provider,
                        !.generate_calls = 1,
                        !.llm_requests = Len(r.requests),
                        !.requests = r.requests,
                        !.outcome = r.outcome]
    /\ UNCHANGED << heap, ret, qwen_available, pipelines, caller_writes,
                    frames, available, pipeline, clients,
                    default_llm_provider, temp_dir >>

\* the client after construction: a client for each key that was in the
\* environment, and DEFAULT_LLM_PROVIDER set or not
InitLLM ==
    /\ heap = InitHeap
    /\ ret = "None"
    /\ qwen_available = TRUE
    /\ pipelines = InitPipelines
    /\ cur = IdleFrame
    /\ caller_writes = 0
    /\ frames = NoFrames
    /\ available = AllAvailable
    /\ pipeline = NoPipeline
    /\ clients \in [Backends -> BOOLEAN]
    /\ default_llm_provider \in { None } \cup { Some(n) : n \in ProviderNames }
    /\ temp_dir = NoFiles

NextLLM ==
    \/ Generate
    \/ Return

SpecLLM == InitLLM /\ [][NextLLM]_vars

\* the name generate goes by: its argument, or the setting, or "deepseek"
NameUsed ==
    IF cur.provider.some THEN cur.provider.v
    ELSE IF default_llm_provider.some THEN default_llm_provider.v
    ELSE deepseek

GenerateDone == cur.op = "generate" /\ cur.outcome # ""

\* C19: generate sends at most one request, and only to the backend whose
\* name is the provider's name in lower case; with a name of no backend, or
\* of a backend without a client, it raises ValueError and sends nothing.
C19_OneBackendOrValueError ==
    GenerateDone =>
        LET b == Lower(NameUsed)
        IN  /\ \A i \in 1..Len(cur.requests) : cur.requests[i] = b
            /\ Len(cur.requests) <= 1
            /\ IF b \in Backends /\ clients[b]
               THEN /\ cur.requests = << b >>
                    /\ cur.outcome \in { "returned", "APIError" }
               ELSE /\ cur.requests = << >>
                    /\ cur.outcome = "ValueError"

\* a provider named in mixed case, its key missing, another key present:
\* ValueError and no request
C19_Witness ==
    /\ GenerateDone
    /\ cur.provider.some
    /\ cur.provider.v # Lower(cur.provider.v)
    /\ Lower(cur.provider.v) \in Backends
    /\ ~ clients[Lower(cur.provider.v)]
    /\ \E b \in Backends : clients[b]
    /\ cur.outcome = "ValueError"
    /\ cur.requests = << >>

\* no argument, the setting in upper case: the request goes to that backend
C19_SettingWitness ==
    /\ GenerateDone
    /\ ~ cur.provider.some
    /\ default_llm_provider.some
    /\ default_llm_provider.v # openai
    /\ cur.requests = << openai >>

\* no argument and no setting: deepseek
C19_DefaultWitness ==
    /\ GenerateDone
    /\ ~ cur.provider.some
    /\ ~ default_llm_provider.some
    /\ cur.requests = << deepseek >>

(* ---------------------------------------------------------------------- *)
(* The batch operations                                                     *)
(* ---------------------------------------------------------------------- *)

\* generate_batch_images, text_to_image.py 253-283: the call, with its
\* prompts; optimize_prompt is among the keyword arguments passed on
GenerateBatchImages ==
    /\ cur.op = "idle"
    /\ \E n \in 0..MaxBatch, optimize \in BOOLEAN :
         \E prompts \in [1..n -> ImagePrompts] :
            cur' = [BatchCalled("generate_batch_images", prompts) EXCEPT
                       !.optimize_prompt = optimize,
                       !.attempted = [i \in 1..n |-> 0],
                       !.rendered = [i \in 1..n |-> 0]]
    /\ UNCHANGED << heap, ret, qwen_available, pipelines, caller_writes,
                    frames, available, pipeline, clients,
                    default_llm_provider, temp_dir >>

\* one turn of its loop (262-275)
GenerateBatchImagesNext ==
    /\ cur.op = "generate_batch_images"
    /\ cur.outcome = ""
    /\ LET i == cur.index + 1
       IN  \E env \in [load : IF available.diffusers /\ pipeline = NoPipeline
                              THEN LoadOutcomes ELSE { "ok" },
                       llm : IF available.diffusers /\ cur.optimize_prompt
                             THEN LLMOutcomes ELSE { "reply" },
                       render : RenderOutcomes] :
              LET r == generate_image(pipeline, available.diffusers,
                                      Txt(cur.images[i]), "sd15",
                                      cur.optimize_prompt, env)
              IN  /\ cur' = [Tally(cur, r.did.outcome) EXCEPT
                        !.attempted[i] = @ + 1,
                        !.rendered[i] = @ + Len(r.did.renders),
                        !.renders = @ \o r.did.renders,
                        !.generate_calls = @ + r.did.generate_calls,
                        !.llm_requests = @ + r.did.llm_requests,
                        !.replies = @ \o r.did.replies,
                        !.files = @ + r.did.files]
                  /\ pipeline' = r.pipeline
    /\ UNCHANGED << heap, ret, qwen_available, pipelines, caller_writes,
                    frames, available, clients, default_llm_provider, temp_dir >>

\* a group of images given to batch_create_videos
ImageGroups ==
    { << >>, << "path_ok" >>, << "path_missing" >>, << "pil" >>,
      << "path_missing", "path_ok" >> }

\* batch_create_videos, image_to_video.py 394-434: the call
BatchCreateVideos ==
    /\ cur.op = "idle"
    /\ \E n \in 0..MaxBatch, video_type \in { "slideshow", "animated" } :
         \E image_groups \in [1..n -> ImageGroups] :
            cur' = [BatchCalled("batch_create_videos", image_groups) EXCEPT
                       !.key = video_type,
                       !.attempted = [i \in 1..n |-> 0],
                       !.rendered = [i \in 1..n |-> 0]]
    /\ UNCHANGED << heap, ret, qwen_available, pipelines, caller_writes,
                    frames, available, pipeline, clients,
                    default_llm_provider, temp_dir >>

\* the video of one group (407-412); image_group[0] of an empty group raises
\* IndexError
create_group_video(avail, video_type, image_group, render) ==
    IF video_type = "slideshow"
    THEN create_slideshow_video(avail, image_group, render)
    ELSE IF image_group = << >>
    THEN Did("IndexError", << >>, NoLLM(<< >>), 0)
    ELSE create_animated_video(avail, image_group[1], render)

\* one turn of its loop (404-425)
BatchCreateVideosNext ==
    /\ cur.op = "batch_create_videos"
    /\ cur.outcome = ""
    /\ LET i == cur.index + 1
       IN  \E render \in RenderOutcomes :
              LET did == create_group_video(available.image_to_video, cur.key,
                                            cur.images[i], render)
              IN  cur' = [Tally(cur, did.outcome) EXCEPT
                             !.attempted[i] = @ + 1,
                             !.rendered[i] = @ + Len(did.renders),
                             !.renders = @ \o did.renders,
                             !.files = @ + did.files]
    /\ UNCHANGED << heap, ret, qwen_available, pipelines, caller_writes,
                    frames, available, pipeline, clients,
                    default_llm_provider, temp_dir >>

\* d[key] = value: a key the dict holds keeps its place
DictPut(d, key, value) ==
    IF DictHas(d, key)
    THEN [i \in 1..Len(d) |-> IF d[i].k = key THEN E(key, value) ELSE d[i]]
    ELSE Append(d, E(key, value))

\* the paths given to process_batch_audio
AudioFiles == { "a.wav", "b.wav" }

\* process_batch_audio, speech_processor.py 185-208: the call
ProcessBatchAudio ==
    /\ cur.op = "idle"
    /\ \E n \in 0..MaxBatch :
         \E audio_files \in [1..n -> AudioFiles] :
            cur' = BatchCalled("process_batch_audio", audio_files)
    /\ UNCHANGED << heap, ret, qwen_available, pipelines, caller_writes,
                    frames, available, pipeline, clients,
                    default_llm_provider, temp_dir >>

\* one turn of its loop (189-199).  transcribe_and_summarize returns or
\* raises; its result is put in results under the path; then save_results
\* (172-183) writes the file or raises; the except clause adds the path to the
\* failed files.  After the last path the counts are taken (201-207)
ProcessBatchAudioNext ==
    /\ cur.op = "process_batch_audio"
    /\ cur.outcome = ""
    /\ \E transcribe \in { "ok", "TranscribeError" },
          save \in { "ok", "OSError" } :
         LET i == cur.index + 1
             audio_file == cur.images[i]
             results == IF transcribe = "ok"
                        THEN DictPut(cur.results, audio_file, i)
                        ELSE cur.results
             error == IF transcribe # "ok" THEN transcribe
                      ELSE IF save # "ok" THEN save ELSE ""
             failed_files ==
                 IF error = "" THEN cur.failed_files
                 ELSE Append(cur.failed_files,
                             [file |-> audio_file, error |-> error])
             over == i = Len(cur.images)
         IN  cur' = [cur EXCEPT
                        !.index = i, !.results = results,
                        !.failed_files = failed_files,
                        !.files = @ + (IF error = "" THEN 1 ELSE 0),
                        !.outcome = IF over THEN "returned" ELSE "",
                        !.summary = IF over
                                    THEN << Summary(cur.images, results,
                                                    failed_files) >>
                                    ELSE << >>]
    /\ UNCHANGED << heap, ret, qwen_available, pipelines, caller_writes,
                    frames, available, pipeline, clients,
                    default_llm_provider, temp_dir >>

\* the chunks a long audio is split in, at most
MaxChunks == 3

\* WhisperClient.split_audio, whisper_client.py 80-99, for an audio of n
\* chunks.  Chunk i is exported to a file of its own; when the export of chunk
\* `export_fails_at` raises (0: none does) the files exported so far stay, the
\* chunk's own file was created or not (partial), and the list of paths is lost
split_audio(n, export_fails_at, partial) ==
    IF export_fails_at \in 1..n
    THEN [raised |-> TRUE, chunk_paths |-> << >>,
          files |-> 1..(export_fails_at - 1)
                    \cup (IF partial THEN { export_fails_at } ELSE {})]
    ELSE [raised |-> FALSE, chunk_paths |-> [i \in 1..n |-> i],
          files |-> 1..n]

RECURSIVE TranscribeChunks(_, _, _, _)
\* the loop of transcribe_long_audio (108-122) from chunk i on: each chunk is
\* transcribed and its file removed; when transcribing raises, the except
\* clause (129-133) removes every chunk file that exists
TranscribeChunks(i, chunk_paths, files, transcribe_fails_at) ==
    IF i > Len(chunk_paths) THEN [outcome |-> "returned", files |-> files]
    ELSE IF i = transcribe_fails_at
    THEN [outcome |-> "TranscribeError",
          files |-> files \ { chunk_paths[j] : j \in 1..Len(chunk_paths) }]
    ELSE TranscribeChunks(i + 1, chunk_paths, files \ { chunk_paths[i] },
                          transcribe_fails_at)

\* WhisperClient.transcribe_long_audio, 101-134: split_audio is called before
\* the try
transcribe_long_audio(n, export_fails_at, partial, transcribe_fails_at) ==
    LET sp == split_audio(n, export_fails_at, partial)
    IN  IF sp.raised THEN [outcome |-> "SplitError", files |-> sp.files]
        ELSE TranscribeChunks(1, sp.chunk_paths, sp.files, transcribe_fails_at)

TranscribeLongAudio ==
    /\ cur.op = "idle"
    /\ \E n \in 0..MaxChunks, partial \in BOOLEAN :
         \E export_fails_at \in 0..n, transcribe_fails_at \in 0..n :
            LET r == transcribe_long_audio(n, export_fails_at, partial,
                                           transcribe_fails_at)
            IN  cur' = [IdleFrame EXCEPT
                           !.op = "transcribe_long_audio",
                           !.images = [i \in 1..n |-> i],
                           !.index = export_fails_at,
                           !.chunks_left = r.files,
                           !.outcome = r.outcome]
    /\ UNCHANGED << heap, ret, qwen_available, pipelines, caller_writes,
                    frames, available, pipeline, clients,
                    default_llm_provider, temp_dir >>

\* the three classes after construction, each with its libraries or without
InitBatch ==
    /\ heap = InitHeap
    /\ ret = "None"
    /\ qwen_available \in BOOLEAN
    /\ pipelines = InitPipelines
    /\ cur = IdleFrame
    /\ caller_writes = 0
    /\ frames = NoFrames
    /\ available \in { a \in [Flags -> BOOLEAN] :
                         a.image_generation /\ a.video }
    /\ pipeline = NoPipeline
    /\ clients = AllConfigured
    /\ default_llm_provider = None
    /\ temp_dir = NoFiles

NextBatch ==
    \/ BatchEditImages
    \/ BatchEditImagesNext
    \/ GenerateBatchImages
    \/ GenerateBatchImagesNext
    \/ BatchCreateVideos
    \/ BatchCreateVideosNext
    \/ ProcessBatchAudio
    \/ ProcessBatchAudioNext
    \/ TranscribeLongAudio
    \/ Return

SpecBatch == InitBatch /\ [][NextBatch]_vars

BatchOps ==
    { "batch_edit_images", "generate_batch_images", "batch_create_videos" }

\* how often input i is in the two lists
TimesListed(i) ==
    Cardinality({ j \in 1..Len(cur.successful) : cur.successful[j] = i })
    + Cardinality({ j \in 1..Len(cur.failed) : cur.failed[j].index = i })

\* both lists are in the order of the inputs
InInputOrder ==
    /\ \A j \in 1..Len(cur.successful), k \in 1..Len(cur.successful) :
         j < k => cur.successful[j] < cur.successful[k]
    /\ \A j \in 1..Len(cur.failed), k \in 1..Len(cur.failed) :
         j < k => cur.failed[j].index < cur.failed[k].index

\* C20: in a batch operation every input the loop has passed is in exactly one
\* of the two lists, once, and was processed once; both lists are in input
\* order; and when the operation returns the loop has passed every input and
\* success_count + failure_count = total_processed = the number of inputs.
C20_ExactAccounting ==
    cur.op \in BatchOps =>
        /\ \A i \in 1..Len(cur.images) :
             /\ TimesListed(i) = (IF i <= cur.index THEN 1 ELSE 0)
             /\ cur.attempted[i] = (IF i <= cur.index THEN 1 ELSE 0)
        /\ InInputOrder
        /\ cur.outcome # "" =>
             /\ cur.outcome = "returned"
             /\ cur.index = Len(cur.images)
             /\ Len(cur.summary) = 1
             /\ cur.summary[1].total_processed = Len(cur.images)
             /\ cur.summary[1].success_count = Len(cur.successful)
             /\ cur.summary[1].failure_count = Len(cur.failed)
             /\ cur.summary[1].success_count + cur.summary[1].failure_count
                  = cur.summary[1].total_processed

\* a batch whose first input failed and whose second succeeded
C20_Witness ==
    /\ cur.op \in BatchOps
    /\ cur.outcome = "returned"
    /\ Len(cur.images) = 2
    /\ Len(cur.failed) = 1 /\ cur.failed[1].index = 1
    /\ cur.successful = << 2 >>
    /\ cur.summary = << [total_processed |-> 2, success_count |-> 1,
                         failure_count |-> 1] >>

\* the same for the prompts of generate_batch_images
C20_PromptsWitness ==
    /\ cur.op = "generate_batch_images"
    /\ cur.outcome = "returned"
    /\ Len(cur.failed) = 1 /\ cur.failed[1].index = 1
    /\ cur.successful = << 2 >>

\* and for the groups of batch_create_videos, the first of them empty
C20_GroupsWitness ==
    /\ cur.op = "batch_create_videos"
    /\ cur.outcome = "returned"
    /\ cur.failed = << [index |-> 1, error |-> "IndexError"] >>
    /\ cur.successful = << 2 >>

\* a batch without the libraries: every input is a failure
C20_AllFailedWitness ==
    /\ cur.op \in BatchOps
    /\ cur.outcome = "returned"
    /\ Len(cur.images) = 2
    /\ Len(cur.failed) = 2
    /\ \A j \in 1..2 : cur.failed[j].error = "ImportError"

(* ---------------------------------------------------------------------- *)
(* Loading and releasing the editor's pipelines                             *)
(* ---------------------------------------------------------------------- *)

\* C22: when load_pipeline(model_type) raised, pipelines[model_type] is None
\* afterwards, and no operation renders with a pipeline whose loading did not
\* complete.
C22_FailedLoadLeavesNone ==
    /\ (cur.op = "load_pipeline" /\ cur.outcome \notin { "", "returned" }
        /\ cur.key \in ModelTypes)
       => pipelines[cur.key] = "None"
    /\ \A i \in 1..Len(cur.renders) :
         cur.renders[i].model \in ModelTypes
         => pipelines[cur.renders[i].model] = "loaded"

\* load_pipeline raised after the slot was assigned: the slot is not None
C22_SlotKeptAfterError ==
    /\ cur.op = "load_pipeline"
    /\ cur.outcome = "LoadError"
    /\ pipelines[cur.key] = "assigned"

\* an edit rendered with a pipeline whose loading had raised
C22_RenderedHalfLoaded ==
    /\ cur.op = "edit_image"
    /\ cur.outcome = "returned"
    /\ cur.renders # << >>
    /\ pipelines["qwen_edit"] = "assigned"

\* C27: cleanup_model(model_type) sets the slot of model_type to None and
\* leaves the others as they were, an unknown model_type changes nothing,
\* cleanup_model() sets every slot to None, and the keys of pipelines are
\* always the four model types.
C27_CleanupFrame ==
    [][/\ DOMAIN pipelines' = ModelTypes
       /\ (cur'.op = "cleanup_model" /\ cur.op = "idle")
          => \A m \in ModelTypes :
                pipelines'[m] = IF cur'.key = "None" \/ cur'.key = m
                                THEN "None" ELSE pipelines[m]]_vars

\* one model was released while another stayed loaded
C27_Witness ==
    /\ cur.op = "cleanup_model"
    /\ cur.key = "inpaint"
    /\ pipelines["inpaint"] = "None"
    /\ pipelines["qwen_edit"] = "loaded"

(* ---------------------------------------------------------------------- *)
(* Prompt optimisation that fails                                           *)
(* ---------------------------------------------------------------------- *)

\* the instruction an editing call gives to edit_image
InstructionGiven ==
    IF cur.op = "edit_image" THEN Txt(cur.value) ELSE cur.resolved[1].s

\* the call asked the LLM to optimise its instruction and got no reply
OptimisationFailed ==
    /\ cur.optimize_prompt
    /\ cur.generate_calls = 1
    /\ cur.replies = << >>

\* C28: an editing call never ends with the error of the LLM; when the
\* optimisation failed the render backend is called exactly once, with the
\* instruction as it was given; and without optimize_prompt the LLM is not
\* called.
C28_OptimisationNeverBlocks ==
    (cur.op \in OperationSet \cup { "edit_image" } /\ cur.outcome # "") =>
        /\ cur.outcome \notin LLMOutcomes
        /\ OptimisationFailed =>
             /\ Len(cur.renders) = 1
             /\ cur.renders[1].prompt = InstructionGiven
        /\ ~ cur.optimize_prompt =>
             (cur.generate_calls = 0 /\ cur.llm_requests = 0)

\* the LLM request failed and the image was edited with the caller's words
C28_Witness ==
    /\ cur.op = "edit_image"
    /\ OptimisationFailed
    /\ cur.llm_requests = 1
    /\ cur.outcome = "returned"
    /\ cur.renders = << Render("qwen_edit", Txt(cur.value)) >>

(* ---------------------------------------------------------------------- *)
(* SpeechProcessor.process_batch_audio                                      *)
(* ---------------------------------------------------------------------- *)

BatchAudioDone == cur.op = "process_batch_audio" /\ cur.outcome = "returned"

\* C21: when process_batch_audio returns, success_count + failure_count =
\* total_processed, and no file is both in 'successful' and in 'failed'.
C21_AudioAccounting ==
    BatchAudioDone =>
        /\ cur.summary[1].success_count + cur.summary[1].failure_count
             = cur.summary[1].total_processed
        /\ \A j \in 1..Len(cur.failed_files) :
             ~ DictHas(cur.results, cur.failed_files[j].file)

\* the accounting is exact when the paths differ and every result was saved
C21_ExactWhenDistinctAndSaved ==
    (/\ BatchAudioDone
     /\ \A i \in 1..Len(cur.images), j \in 1..Len(cur.images) :
          i # j => cur.images[i] # cur.images[j]
     /\ \A j \in 1..Len(cur.failed_files) :
          cur.failed_files[j].error # "OSError")
    => /\ cur.summary[1].success_count + cur.summary[1].failure_count
            = cur.summary[1].total_processed
       /\ \A j \in 1..Len(cur.failed_files) :
            ~ DictHas(cur.results, cur.failed_files[j].file)

\* the same path twice, both processed: one success is counted for two files
C21_RepeatedPathCountedOnce ==
    /\ BatchAudioDone
    /\ cur.images = << "a.wav", "a.wav" >>
    /\ cur.failed_files = << >>
    /\ cur.summary = << [total_processed |-> 2, success_count |-> 1,
                         failure_count |-> 0] >>

\* one file, transcribed but not saved: it is a success and a failure
C21_SaveFailureCountedTwice ==
    /\ BatchAudioDone
    /\ cur.images = << "a.wav" >>
    /\ DictHas(cur.results, "a.wav")
    /\ cur.failed_files = << [file |-> "a.wav", error |-> "OSError"] >>
    /\ cur.summary = << [total_processed |-> 1, success_count |-> 1,
                         failure_count |-> 1] >>

(* ---------------------------------------------------------------------- *)
(* design_text_poster and the category it resolves a design type in         *)
(* ---------------------------------------------------------------------- *)

\* design_text_poster called the editor
DesignRouted ==
    /\ cur.op = "AI2CSystem"
    /\ cur.feature = "design_text_poster"
    /\ cur.editor # ""

\* C26: design_text_poster resolves every key of the text-design category
\* through text_design, in that category, and every key of the poster category
\* through poster_design.
C26_RoutedToOwnCategory ==
    DesignRouted =>
        /\ cur.key \in TableKeys("wenzi sheji")
           => (cur.editor = "text_design" /\ cur.category = "wenzi sheji")
        /\ cur.key \in TableKeys("haibao bianji")
           => (cur.editor = "poster_design" /\ cur.category = "haibao bianji")

\* it is so for the three text keys design_text_poster lists, and for the
\* poster keys
C26_ListedKeysRouted ==
    DesignRouted =>
        /\ cur.key \in TextDesignTypes
           => (cur.editor = "text_design" /\ cur.category = "wenzi sheji")
        /\ cur.key \in TableKeys("haibao bianji")
           => (cur.editor = "poster_design" /\ cur.category = "haibao bianji")

\* "霓虹文字" is a key of the text-design category, and was resolved by the
\* fallback of poster_design
C26_TextKeyThroughPosterFallback ==
    /\ DesignRouted
    /\ cur.key = "nihong wenzi"
    /\ cur.editor = "poster_design"
    /\ cur.category = "haibao bianji"
    /\ Len(cur.resolved) = 1
    /\ cur.resolved[1].ok
    /\ cur.resolved[1].s = << T("Design "), T("nihong wenzi"), T(" poster"),
                               T(" with "), T("purple"), T(" theme") >>

(* ---------------------------------------------------------------------- *)
(* The model a generated image is said to come from                         *)
(* ---------------------------------------------------------------------- *)

\* C23: the metadata.model_name of a successful generate_image result names
\* the model whose pipeline produced the images.
C23_MetadataNamesTheModel ==
    (cur.op = "generate_image" /\ cur.outcome = "returned")
    => cur.renders[1].model = cur.key

\* the images are always by the pipeline the generator holds
C23_RenderedByHeldPipeline ==
    (cur.op = "generate_image" /\ cur.renders # << >>)
    => cur.renders[1].model = pipeline.model

\* generate_image(model_name="sdxl") returned images of the sd15 pipeline
C23_NamesAnotherModel ==
    /\ cur.op = "generate_image"
    /\ cur.outcome = "returned"
    /\ cur.key = "sdxl"
    /\ cur.renders[1].model = "sd15"

(* ---------------------------------------------------------------------- *)
(* WhisperClient.transcribe_long_audio and its chunk files                  *)
(* ---------------------------------------------------------------------- *)

LongAudioDone == cur.op = "transcribe_long_audio" /\ cur.outcome # ""

\* C25: whenever transcribe_long_audio returns or raises, none of the chunk
\* files created for the call still exists.
C25_NoChunkLeft == LongAudioDone => cur.chunks_left = {}

\* it is so when the audio was split: on return, and when transcribing a
\* chunk raised
C25_NoChunkLeftAfterSplit ==
    (LongAudioDone /\ cur.outcome # "SplitError") => cur.chunks_left = {}

\* the export of the second chunk raised, and the file of the first is there
C25_ChunkLeftBySplit ==
    /\ LongAudioDone
    /\ cur.outcome = "SplitError"
    /\ cur.index = 2
    /\ 1 \in cur.chunks_left

\* transcribing raised with chunks still to come, and no file is left
C25_CleanedAfterTranscribeError ==
    /\ LongAudioDone
    /\ cur.outcome = "TranscribeError"
    /\ Len(cur.images) = 3
    /\ cur.chunks_left = {}

(* ---------------------------------------------------------------------- *)
(* Video operations that share the temp directory                           *)
(* ---------------------------------------------------------------------- *)

\* the in-memory images a slideshow is given, at most
MaxSlides == 2

VideoOps == { "create_slideshow_video", "create_animated_video",
              "create_comparison_video" }

\* f"temp_img_{len(images)}.png" (98), len(images) being k
temp_img(k) == IF k = 0 THEN "temp_img_0.png" ELSE "temp_img_1.png"

\* the temp files an operation writes for n in-memory images, in order:
\* create_slideshow_video 90-100, create_animated_video 204-206,
\* create_comparison_video 318-325
TempPathsOf(op, n) ==
    CASE op = "create_slideshow_video" -> [k \in 1..n |-> temp_img(k - 1)]
      [] op = "create_animated_video" -> << "temp_animation.png" >>
      [] op = "create_comparison_video" ->
            << "temp_compare_0.png", "temp_compare_1.png" >>

\* _cleanup_temp_images, 436-444: every temp_*.png (.jpg, .jpeg) of the
\* directory is removed; all the names of TempNames are such
cleanup_temp_images(dir) == [f \in DOMAIN dir |-> NoFile]

\* the finally clauses of create_animated_video (298-301) and of
\* create_comparison_video (388-392): the operation's temp paths that exist
\* are removed
remove_temp_paths(dir, temp_paths) ==
    [f \in DOMAIN dir |->
        IF \E k \in 1..Len(temp_paths) : temp_paths[k] = f
        THEN NoFile ELSE dir[f]]

\* a caller's video operation: the temp files still to write, those written,
\* what ImageClip read from them, and what the operation returned or raised
IdleVideoCall ==
    [pc |-> "idle", op |-> "", todo |-> << >>, temp_paths |-> << >>,
     clips |-> << >>, outcome |-> ""]

\* a caller calls a video operation with in-memory images; moviepy is there
VideoCall(c) ==
    /\ frames[c].pc = "idle"
    /\ \E op \in VideoOps, n \in 1..MaxSlides :
         frames' = [frames EXCEPT ![c] =
                       [IdleVideoCall EXCEPT !.pc = "save", !.op = op,
                                             !.todo = TempPathsOf(op, n)]]
    /\ UNCHANGED << heap, ret, qwen_available, pipelines, cur,
                    caller_writes, available, pipeline, clients,
                    default_llm_provider, temp_dir >>

\* item.save(temp_path) (99, 206, 324): the file is written, over whatever
\* has that name
SaveTemp(c) ==
    /\ frames[c].pc = "save"
    /\ LET f == frames[c]
           temp_path == Head(f.todo)
       IN  /\ temp_dir' = [temp_dir EXCEPT ![temp_path] = c]
           /\ frames' = [frames EXCEPT
                            ![c].todo = Tail(f.todo),
                            ![c].temp_paths = Append(f.temp_paths, temp_path),
                            ![c].pc = IF Tail(f.todo) = << >>
                                      THEN "clip" ELSE "save"]
    /\ UNCHANGED << heap, ret, qwen_available, pipelines, cur,
                    caller_writes, available, pipeline, clients,
                    default_llm_provider >>

\* ImageClip(temp_path) (112, 209, 328-329) reads the next temp file; a file
\* that is not there raises, and the finally clause is next
MakeClip(c) ==
    /\ frames[c].pc = "clip"
    /\ LET f == frames[c]
           k == Len(f.clips) + 1
           content == temp_dir[f.temp_paths[k]]
       IN  frames' = IF content = NoFile
                     THEN [frames EXCEPT ![c].pc = "finally",
                                         ![c].outcome = "FileNotFoundError"]
                     ELSE [frames EXCEPT
                              ![c].clips = Append(f.clips, content),
                              ![c].pc = IF k = Len(f.temp_paths)
                                        THEN "write" ELSE "clip"]
    /\ UNCHANGED << heap, ret, qwen_available, pipelines, cur,
                    caller_writes, available, pipeline, clients,
                    default_llm_provider, temp_dir >>

\* write_videofile (160-167, 276-282, 366-372)
WriteVideo(c) ==
    /\ frames[c].pc = "write"
    /\ frames' = [frames EXCEPT ![c].pc = "finally", ![c].outcome = "video"]
    /\ UNCHANGED << heap, ret, qwen_available, pipelines, cur,
                    caller_writes, available, pipeline, clients,
                    default_llm_provider, temp_dir >>

\* the finally clause: 182-184, 298-301, 388-392
Finally(c) ==
    /\ frames[c].pc = "finally"
    /\ temp_dir' = IF frames[c].op = "create_slideshow_video"
                   THEN cleanup_temp_images(temp_dir)
                   ELSE remove_temp_paths(temp_dir, frames[c].temp_paths)
    /\ frames' = [frames EXCEPT ![c].pc = "done"]
    /\ UNCHANGED << heap, ret, qwen_available, pipelines, cur,
                    caller_writes, available, pipeline, clients,
                    default_llm_provider >>

\* the caller has its video or its exception
VideoReturn(c) ==
    /\ frames[c].pc = "done"
    /\ frames' = [frames EXCEPT ![c] = IdleVideoCall]
    /\ UNCHANGED << heap, ret, qwen_available, pipelines, cur,
                    caller_writes, available, pipeline, clients,
                    default_llm_provider, temp_dir >>

VideoCalls == \E c \in Callers : VideoCall(c)
SaveTemps == \E c \in Callers : SaveTemp(c)
MakeClips == \E c \in Callers : MakeClip(c)
WriteVideos == \E c \in Callers : WriteVideo(c)
Finallys == \E c \in Callers : Finally(c)
VideoReturns == \E c \in Callers : VideoReturn(c)

InitVideo ==
    /\ heap = InitHeap
    /\ ret = "None"
    /\ qwen_available = TRUE
    /\ pipelines = InitPipelines
    /\ cur = IdleFrame
    /\ caller_writes = 0
    /\ frames = [c \in Callers |-> IdleVideoCall]
    /\ available = AllAvailable
    /\ pipeline = NoPipeline
    /\ clients = AllConfigured
    /\ default_llm_provider = None
    /\ temp_dir = NoFiles

NextVideo ==
    \/ VideoCalls
    \/ SaveTemps
    \/ MakeClips
    \/ WriteVideos
    \/ Finallys
    \/ VideoReturns

SpecVideo == InitVideo /\ [][NextVideo]_vars

\* the operation of c has written a temp file and not yet its video
WritingVideo(c) == frames[c].pc \in { "save", "clip", "write" }

\* every temp file c wrote is there, as c wrote it
TempFilesKept(c) ==
    \A k \in 1..Len(frames[c].temp_paths) :
        temp_dir[frames[c].temp_paths[k]] = c

\* C24: when video operations given in-memory images interleave, the temp
\* file one operation wrote is neither deleted nor overwritten by another
\* before the first has finished writing its video.
C24_TempFilesUntouched ==
    \A c \in Callers : WritingVideo(c) => TempFilesKept(c)

\* a temp file is lost or replaced only by a step of a slideshow, or of an
\* operation of the same kind: an animation and a comparison use names of
\* their own and remove only those
C24_OnlySlideshowOrSameKind ==
    [][\A c \in Callers :
          (WritingVideo(c) /\ TempFilesKept(c) /\ frames'[c] = frames[c]
           /\ \E k \in 1..Len(frames[c].temp_paths) :
                 temp_dir'[frames[c].temp_paths[k]] # c)
          => \E d \in Callers \ { c } :
                /\ frames'[d] # frames[d]
                /\ frames[d].op \in { "create_slideshow_video",
                                      frames[c].op }]_vars

\* the temp file of an animation is deleted by the cleanup of a slideshow
\* before the animation has read it, and the animation raises
C24_DeletedBySlideshowCleanup ==
    \E c \in Callers, d \in Callers :
        /\ frames[c].op = "create_animated_video"
        /\ frames[c].outcome = "FileNotFoundError"
        /\ frames[d].op = "create_slideshow_video"
        /\ frames[d].pc = "done"

\* the temp file of a slideshow is overwritten by another slideshow, and the
\* video is made of the other's image
C24_VideoOfOverwrittenFile ==
    \E c \in Callers : \E d \in Callers \ { c } :
        /\ frames[c].op = "create_slideshow_video"
        /\ frames[c].outcome = "video"
        /\ frames[c].clips = << d >>

=============================================================================
